---- MODULE Spec2Model ----
(***************************************************************************)
(* Leaf-Segment id allocator (others/leafSegment/leaf.go): Segment,        *)
(* DoubleBuffer (Init, NextID, CheckAndLoadNext) and the store             *)
(* transaction LeafDAO.FetchNextSegment.                                   *)
(*                                                                         *)
(* Segments are heap objects: segs is the heap, a pointer is an index into *)
(* it and 0 is nil.  A caller is a goroutine calling Init / NextID on the  *)
(* DoubleBuffer bufOf[c]; a task is the goroutine started by               *)
(* CheckAndLoadNext.  Reads of db.current, db.nextReady and db.isLoading   *)
(* outside the mutex are separate steps, so that a racing write can fall   *)
(* between two of them.  The locals of a goroutine (loc) are cleared when  *)
(* its call returns.                                                       *)
(*                                                                         *)
(* LeafServer.GetID (the registry of DoubleBuffers per tag) runs the same  *)
(* DoubleBuffer steps inside its own: specification RegSpec.  The UUIDv7   *)
(* Generator (Generator.NewWithTime, UUID.Version, Variant, Timestamp,     *)
(* Compare) is specification GenSpec, GenWideSpec with instants before     *)
(* 1970.  The Snowflake driver (others/leafSnowflake/snowflake.go) is      *)
(* SnowSpec (NextID) and ZkSpec (registration and heartbeat in Zookeeper). *)
(* The text forms of a UUID are CodecSpec.                                 *)
(***************************************************************************)
EXTENDS Integers, Sequences, FiniteSets

\* ---- bounds ----
NumCallers == 2
NumTasks == 2
NumBufs == 2
MaxStep == 2
MaxSegs == 3
MaxSharedSegs == 2
MaxFail == 1
MaxGets == 2
MaxCalls == 3
MaxMilli == 2
MaxClock == 6
MaxSfCalls == 4
MaxByteIdx == 5
MaxTick == 3

\* ---- program constants ----
InitMaxId == 1
None == 0
MaxClockSeq == 4095
VersionTimeSorted == 7
VariantNCS == 0
VariantRFC4122 == 1
VariantMicrosoft == 2
VariantFuture == 3
WorkerIdBits == 10
SequenceBits == 12
MaxBackwards == 5
Port == 8080

Callers == 1..NumCallers
Tasks == (NumCallers + 1)..(NumCallers + NumTasks)
Procs == Callers \cup Tasks
Bufs == 1..NumBufs
Tags == {"order-service"}
RegTags == {"order-service", "user-service"}

VARIABLES
    dbMaxId,    \* leaf_alloc.max_id per biz_tag
    dbStep,     \* leaf_alloc.step per biz_tag
    rowLock,    \* the transaction holding the row's exclusive lock, per biz_tag
    segs,       \* heap of Segment objects
    bizTag,     \* DoubleBuffer.bizTag
    current,    \* DoubleBuffer.current (pointer)
    next,       \* DoubleBuffer.next (pointer)
    nextReady,  \* DoubleBuffer.nextReady
    isLoading,  \* DoubleBuffer.isLoading
    mu,         \* DoubleBuffer.mu: the holder, or None
    bufOf,      \* the DoubleBuffer a goroutine works on
    pc,         \* position of each goroutine
    loc,        \* locals of each goroutine: site (call site of the running
                \* FetchNextSegment), id and src (NextID's id and the segment
                \* whose cursor produced it), seg (FetchNextSegment's result),
                \* maxId and step (FetchNextSegment's locals), start (history:
                \* number of ids returned when the call began)
    res,        \* history: what the caller's last call returned
    log,        \* history: ids returned per buffer, in return order
    failed,     \* history: the call sites of the store errors so far
    buffers,    \* LeafServer.buffers: the DoubleBuffer of a tag, or 0
    smu,        \* LeafServer.mu: the writer holding it (w) and its readers (r)
    gpc,        \* position of each goroutine inside GetID
    gtag,       \* GetID's bizTag argument
    gets,       \* history: the number of calls (of GetID, or of NextID where
                \* NextID is called directly) each goroutine has made
    gerr,       \* history: the error GetID returned to each goroutine last
                \* (ret) and the error FetchNextSegment had returned (store);
                \* an error is the chain of its messages, <<>> is nil
    lastTimestamp,  \* Generator.lastTimestamp
    clockSeq,       \* Generator.clockSeq
    hist,       \* history: the calls of NewWithTime, in order
    lastTime,   \* SnowflakeDriver.lastTime, in ms since Epoch
    sequence,   \* SnowflakeDriver.sequence
    workerID,   \* SnowflakeDriver.workerID
    sfmu,       \* SnowflakeDriver.mu: the holder, or None
    sfpc,       \* position of each goroutine inside SnowflakeDriver.NextID
    sfnow,      \* NextID's first reading of the clock, kept by the goroutine
                \* that holds the mutex
    lastId,     \* history: the id issued last, -1 before the first
    sfcalls,    \* history: the number of calls of SnowflakeDriver.NextID
    sfret,      \* history: what the last return of SnowflakeDriver.NextID
                \* gave (kind, id), the call's first reading of the clock
                \* (first), lastTime as the call found it (last) and
                \* whether the call slept or spun (via)
    cu,         \* a UUID value
    cout,       \* history: the last encoding of cu (op, enc) and what the
                \* decoder made of it (uuid, err)
    zkNodes,    \* Zookeeper: the data of the node at each path, or Absent
    cacheFile,  \* the file .leaf_cache_<port>: a NodeInfo, or Absent
    drv,        \* the Snowflake service process: "down" or "up"
    hbeat,      \* history: whether scheduledUploadTime has uploaded (sent),
                \* and the LastTime of its last upload (time)
    boot        \* history: the last run of registerOrRecover (kind), the
                \* clock reading and the LastTime its rollback check
                \* compared (now, against), and hbeat as it was then (beat)

leafVars == <<dbMaxId, dbStep, rowLock, segs, bizTag, current, next, nextReady,
              isLoading, mu, bufOf, pc, loc, res, log, failed>>
regVars == <<buffers, smu, gpc, gtag, gets, gerr>>
genVars == <<lastTimestamp, clockSeq, hist>>
snowVars == <<lastTime, sequence, workerID, sfmu, sfpc, sfnow, lastId,
              sfcalls, sfret>>
codecVars == <<cu, cout>>
zkVars == <<zkNodes, cacheFile, drv, hbeat, boot>>
extVars == <<genVars, snowVars, codecVars, zkVars>>

vars == <<dbMaxId, dbStep, rowLock, segs, bizTag, current, next, nextReady,
          isLoading, mu, bufOf, pc, loc, res, log, failed, regVars, genVars,
          snowVars, codecVars, zkVars>>

storeVars == <<dbMaxId, dbStep, rowLock>>
bufVars == <<current, next, nextReady, isLoading, mu>>

NoLoc == [site |-> "none", id |-> 0, src |-> 0, seg |-> 0, maxId |-> 0,
          step |-> 0, start |-> 0, err |-> <<>>]

\* ---- Segment ----

\* NewSegment / the literal at the end of FetchNextSegment; owner and pf are
\* history fields: the buffer that fetched it, and the prefetches started
\* while it was current.
NewSegment(base, max, step, b) ==
    [Base |-> base, Max |-> max, Step |-> step, Cursor |-> base,
     owner |-> b, pf |-> 0]

Remaining(s) == segs[s].Max - segs[s].Cursor

\* int64(float64(Step) * 0.2)
Threshold(step) == (step * 2) \div 10

\* atomic.AddInt64(&s.Cursor, 1): the heap after the add
AddCursor(s) == [segs EXCEPT ![s].Cursor = @ + 1]

\* ---- Init ----

\* NewLeafServer: an empty map, nobody inside GetID
NewLeafServer ==
    /\ buffers = [t \in RegTags |-> 0]
    /\ smu = [w |-> None, r |-> {}]
    /\ gpc = [c \in Callers |-> "idle"]
    /\ gtag = [c \in Callers |-> "order-service"]
    /\ gets = [c \in Callers |-> 0]
    /\ gerr = [c \in Callers |-> [ret |-> <<>>, store |-> <<>>]]

\* NewGenerator: the zero values of lastTimestamp and clockSeq
NewGenerator ==
    /\ lastTimestamp = 0
    /\ clockSeq = 0
    /\ hist = <<>>

\* the Nil UUID, nothing encoded yet
NoCodec ==
    /\ cu = [i \in 1..16 |-> 0]
    /\ cout = [op |-> "none", enc |-> <<>>, uuid |-> [i \in 1..16 |-> 0],
               err |-> "nil"]

\* NewSnowflakeDriver: lastTime and sequence zero, the mutex free, workerID
\* what registerOrRecover gives a fresh node: int64(d.port % 1024).  Times
\* are counted in ms since Epoch, so the zero lastTime, which is earlier than
\* every reading of the clock, is a value below all of them.
NewSnowflakeDriver ==
    /\ lastTime = -1
    /\ sequence = 0
    /\ workerID = Port % 1024
    /\ sfmu = None
    /\ sfpc = [c \in Callers |-> "idle"]
    /\ sfnow = 0
    /\ lastId = -1
    /\ sfcalls = 0
    /\ sfret = [kind |-> "none", id |-> 0, first |-> 0, last |-> -1,
                via |-> "direct"]

\* ---- strings, Zookeeper paths ----

HexDigits == <<"0", "1", "2", "3", "4", "5", "6", "7", "8", "9",
               "a", "b", "c", "d", "e", "f">>

\* a string is the sequence of its characters
ZKRootPath == <<"/", "l", "e", "a", "f", "_", "s", "n", "o", "w", "f", "l", "a", "k", "e">>
ServiceName == <<"o", "r", "d", "e", "r", "-", "s", "e", "r", "v", "i", "c", "e">>

RECURSIVE FormatInt(_)
\* fmt's %d of a number that is not negative
FormatInt(n) ==
    IF n < 10 THEN <<HexDigits[n + 1]>>
    ELSE FormatInt(n \div 10) \o <<HexDigits[(n % 10) + 1]>>

\* servicePath := fmt.Sprintf("%s%s", ZKRootPath, d.service)
ServicePath == ZKRootPath \o ServiceName

\* nodeKey := fmt.Sprintf("%s%d", servicePath, d.port) of registerOrRecover
RegisterKey == ServicePath \o FormatInt(Port)

\* nodeKey := fmt.Sprintf("%s/%s/node-%d", ZKRootPath, d.service, d.port)
\* of scheduledUploadTime
HeartbeatKey ==
    ZKRootPath \o <<"/">> \o ServiceName \o <<"/", "n", "o", "d", "e", "-">> \o FormatInt(Port)

ZkPaths == {ServicePath, RegisterKey, HeartbeatKey}

Absent == [exists |-> FALSE]

\* NodeInfo, as json.Marshal writes it and json.Unmarshal reads it back
NodeInfo(w, last, created) ==
    [exists |-> TRUE, WorkerID |-> w, LastTime |-> last, CreateTime |-> created]

\* a node holding []byte{}
EmptyNode == [exists |-> TRUE, WorkerID |-> 0, LastTime |-> 0, CreateTime |-> 0]

\* no service process yet, nothing in Zookeeper, no cache file
NoDriver ==
    /\ zkNodes = [k \in ZkPaths |-> Absent]
    /\ cacheFile = Absent
    /\ drv = "down"
    /\ hbeat = [sent |-> FALSE, time |-> 0]
    /\ boot = [kind |-> "none", now |-> 0, against |-> 0,
               beat |-> [sent |-> FALSE, time |-> 0]]

Init ==
    /\ dbMaxId = [t \in Tags |-> InitMaxId]
    /\ dbStep \in [Tags -> 1..MaxStep]
    /\ rowLock = [t \in Tags |-> None]
    /\ segs = <<>>
    /\ bizTag = [b \in Bufs |-> "order-service"]
    /\ current = [b \in Bufs |-> 0]
    /\ next = [b \in Bufs |-> 0]
    /\ nextReady = [b \in Bufs |-> FALSE]
    /\ isLoading = [b \in Bufs |-> 0]
    /\ mu = [b \in Bufs |-> None]
    /\ bufOf \in [Procs -> Bufs]
    /\ \A t \in Tasks : bufOf[t] = 1
    /\ \A c \in Callers : \A b \in 1..(bufOf[c] - 1) :
           \E d \in 1..(c - 1) : bufOf[d] = b
    /\ pc = [p \in Procs |-> "idle"]
    /\ loc = [p \in Procs |-> NoLoc]
    /\ res = [c \in Callers |-> "none"]
    /\ log = [b \in Bufs |-> <<>>]
    /\ failed = <<>>
    /\ NewLeafServer
    /\ NewGenerator
    /\ NoCodec
    /\ NewSnowflakeDriver
    /\ NoDriver

\* ---- LeafDAO.FetchNextSegment ----

\* the number of segments the store gives out in a run: MaxSharedSegs when
\* all callers work on buffer 1 (any number of calls each), MaxSegs otherwise
SegCap == IF \A c \in Callers : bufOf[c] = 1 THEN MaxSharedSegs ELSE MaxSegs

\* every fetch made on the row of one and the same tag
FetchTagShared(p) == "order-service"

\* db.dao.FetchNextSegment(db.bizTag): the row the statements name with
\* WHERE biz_tag = ?
FetchTag(p) == bizTag[bufOf[p]]

\* UPDATE that does not wait for the row lock of another transaction
RowLockIgnored(p, tag) == TRUE

\* the row lock taken by UPDATE is free or already ours
RowLockFree(p, tag) == rowLock[tag] \in {None, p}

\* a prefetch task that ends on the store error without the deferred reset
ErrPcNoReset(p) == CASE loc[p].site = "init" -> "init_err"
                     [] loc[p].site = "fallback" -> "fetch_err"
                     [] OTHER -> "idle"

\* where FetchNextSegment returns to, by call site
OkPc(p) == CASE loc[p].site = "init" -> "init_ok"
             [] loc[p].site = "fallback" -> "install"
             [] OTHER -> "t_stage"
\* a prefetch task that goes on to stage its result after the store error
ErrPcStaged(p) == CASE loc[p].site = "init" -> "init_err"
                    [] loc[p].site = "fallback" -> "fetch_err"
                    [] OTHER -> "t_stage"

\* where FetchNextSegment returns to on an error, by call site
ErrPc(p) == CASE loc[p].site = "init" -> "init_err"
              [] loc[p].site = "fallback" -> "fetch_err"
              [] OTHER -> "t_reset"

\* tx.ExecContext("UPDATE leaf_alloc SET max_id = max_id + step ...")
TxUpdate(p) ==
    /\ pc[p] = "tx_update"
    /\ Len(segs) < SegCap
    /\ LET tag == FetchTag(p) IN
        /\ RowLockFree(p, tag)
        /\ rowLock' = [rowLock EXCEPT ![tag] = p]
        /\ dbMaxId' = [dbMaxId EXCEPT ![tag] = @ + dbStep[tag]]
    /\ pc' = [pc EXCEPT ![p] = "tx_select"]
    /\ UNCHANGED <<dbStep, segs, bizTag, bufVars, bufOf, loc, res, log, failed>>

\* tx.QueryRowContext("SELECT max_id, step ...").Scan(&maxId, &step)
TxSelect(p) ==
    /\ pc[p] = "tx_select"
    /\ LET tag == FetchTag(p) IN
        loc' = [loc EXCEPT ![p].maxId = dbMaxId[tag], ![p].step = dbStep[tag]]
    /\ pc' = [pc EXCEPT ![p] = "tx_commit"]
    /\ UNCHANGED <<storeVars, segs, bizTag, bufVars, bufOf, res, log, failed>>

\* tx.Commit() and the returned &Segment{...}
TxCommit(p) ==
    /\ pc[p] = "tx_commit"
    /\ LET tag == FetchTag(p) IN
        rowLock' = [rowLock EXCEPT ![tag] = IF @ = p THEN None ELSE @]
    /\ segs' = Append(segs, NewSegment(loc[p].maxId - loc[p].step,
                                       loc[p].maxId, loc[p].step, bufOf[p]))
    /\ loc' = [loc EXCEPT ![p].seg = Len(segs) + 1, ![p].maxId = 0,
                          ![p].step = 0]
    /\ pc' = [pc EXCEPT ![p] = OkPc(p)]
    /\ UNCHANGED <<dbMaxId, dbStep, bizTag, bufVars, bufOf, res, log, failed>>

\* the error FetchNextSegment returns: the err of the failed statement, as
\* the driver gave it
StoreError(at) == CASE at = "tx_update" -> <<"exec failed">>
                    [] at = "tx_select" -> <<"scan failed">>
                    [] OTHER -> <<"commit failed">>

\* the UPDATE of a failed transaction left in place
RollbackSkipped(tag) == dbMaxId

\* defer tx.Rollback(): the UPDATE of the transaction is undone
Rollback(tag) == [dbMaxId EXCEPT ![tag] = @ - dbStep[tag]]

\* an error from Begin, Exec, QueryRow or Commit: the deferred tx.Rollback()
\* undoes the UPDATE if it was made, and the error is returned
TxFail(p) ==
    /\ pc[p] \in {"tx_update", "tx_select", "tx_commit"}
    /\ Len(failed) < MaxFail
    /\ failed' = Append(failed, loc[p].site)
    /\ LET tag == FetchTag(p) IN
        IF pc[p] = "tx_update"
        THEN UNCHANGED <<dbMaxId, rowLock>>
        ELSE /\ dbMaxId' = Rollback(tag)
             /\ rowLock' = [rowLock EXCEPT ![tag] = IF @ = p THEN None ELSE @]
    /\ loc' = [loc EXCEPT ![p].maxId = 0, ![p].step = 0,
                          ![p].err = StoreError(pc[p])]
    /\ pc' = [pc EXCEPT ![p] = ErrPc(p)]
    /\ UNCHANGED <<dbStep, segs, bizTag, bufVars, bufOf, res, log>>

\* tx.ExecContext returns an error because the store has no segment left to
\* give: FetchNextSegment returns the error, nothing was updated
TxRefuse(p) ==
    /\ pc[p] = "tx_update"
    /\ Len(segs) >= SegCap
    /\ failed' = Append(failed, loc[p].site)
    /\ loc' = [loc EXCEPT ![p].maxId = 0, ![p].step = 0,
                          ![p].err = StoreError(pc[p])]
    /\ pc' = [pc EXCEPT ![p] = ErrPc(p)]
    /\ UNCHANGED <<storeVars, segs, bizTag, bufVars, bufOf, res, log>>

\* ---- DoubleBuffer.Init ----

\* nobody is inside Init of buffer b
NotInInit(b) == \A d \in Callers : ~(bufOf[d] = b /\ loc[d].site = "init")

\* seg, err := db.dao.FetchNextSegment(db.bizTag)
InitCall(c) ==
    /\ pc[c] = "idle"
    /\ current[bufOf[c]] = 0
    /\ NotInInit(bufOf[c])
    /\ pc' = [pc EXCEPT ![c] = "tx_update"]
    /\ loc' = [loc EXCEPT ![c].site = "init"]
    /\ UNCHANGED <<storeVars, segs, bizTag, bufVars, bufOf, res, log, failed>>

\* an Init that returns nil and leaves db.current as it was
InitDiscarded(c) == current

\* db.current = seg
InitInstalled(c) == [current EXCEPT ![bufOf[c]] = loc[c].seg]

\* db.current = seg; return nil
InitOk(c) ==
    /\ pc[c] = "init_ok"
    /\ current' = InitInstalled(c)
    /\ pc' = [pc EXCEPT ![c] = "idle"]
    /\ loc' = [loc EXCEPT ![c] = NoLoc]
    /\ res' = [res EXCEPT ![c] = "init_ok"]
    /\ UNCHANGED <<storeVars, segs, bizTag, next, nextReady, isLoading, mu,
                   bufOf, log, failed>>

\* if err != nil { return err }
InitErr(c) ==
    /\ pc[c] = "init_err"
    /\ pc' = [pc EXCEPT ![c] = "idle"]
    /\ loc' = [loc EXCEPT ![c] = NoLoc]
    /\ res' = [res EXCEPT ![c] = "err_init"]
    /\ UNCHANGED <<storeVars, segs, bizTag, bufVars, bufOf, log, failed>>

\* ---- DoubleBuffer.NextID ----

\* the history after the call of c returns v, taken from the cursor of
\* segment s
Logged(c, v, s) ==
    [log EXCEPT ![bufOf[c]] =
        Append(@, [id |-> v, seg |-> s, start |-> loc[c].start])]

\* return id, nil on the fast path (out of CheckAndLoadNext)
ReturnFast(c) ==
    /\ pc' = [pc EXCEPT ![c] = "idle"]
    /\ loc' = [loc EXCEPT ![c] = NoLoc]
    /\ res' = [res EXCEPT ![c] = "id"]
    /\ log' = Logged(c, loc[c].id, loc[c].src)

\* a NextID that answers a buffer without segment with the id 0, no error
ZeroIdReturned(c) == [res EXCEPT ![c] = "id"]

\* return 0, errors.New("segment not initialized")
NotInitialized(c) == [res EXCEPT ![c] = "err_not_init"]

\* if db.current == nil { return 0, errors.New("segment not initialized") }
NextIDNil(c) ==
    /\ pc[c] = "idle"
    /\ current[bufOf[c]] = 0
    /\ res' = NotInitialized(c)
    /\ UNCHANGED <<storeVars, segs, bizTag, bufVars, bufOf, pc, loc, log, failed>>

\* id := atomic.AddInt64(&db.current.Cursor, 1)
FastAdd(c) ==
    /\ pc[c] = "idle"
    /\ current[bufOf[c]] # 0
    /\ LET s == current[bufOf[c]] IN
        /\ segs' = AddCursor(s)
        /\ loc' = [loc EXCEPT ![c].id = segs[s].Cursor + 1, ![c].src = s,
                              ![c].start = Len(log[bufOf[c]])]
    /\ pc' = [pc EXCEPT ![c] = "fast_check"]
    /\ UNCHANGED <<storeVars, bizTag, bufVars, bufOf, res, log, failed>>

\* the bound the fast path compares id with: db.current.Max, read again
FastBound(c) == segs[current[bufOf[c]]].Max

\* if id <= db.current.Max { db.CheckAndLoadNext(); return id, nil }
FastCheck(c) ==
    /\ pc[c] = "fast_check"
    /\ pc' = [pc EXCEPT ![c] = IF loc[c].id <= FastBound(c) THEN "chk_ready"
                                                            ELSE "lock"]
    /\ UNCHANGED <<storeVars, segs, bizTag, bufVars, bufOf, loc, res, log, failed>>

\* db.mu.Lock()
Lock(c) ==
    /\ pc[c] = "lock"
    /\ mu[bufOf[c]] = None
    /\ mu' = [mu EXCEPT ![bufOf[c]] = c]
    /\ pc' = [pc EXCEPT ![c] = "recheck"]
    /\ UNCHANGED <<storeVars, segs, bizTag, current, next, nextReady,
                   isLoading, bufOf, loc, res, log, failed>>

\* a return that leaves the mutex locked
UnlockSkipped(b) == mu

\* defer db.mu.Unlock(): run when NextID returns from its slow path
Unlock(b) == [mu EXCEPT ![b] = None]

\* the staged segment never taken
CanPromoteNever(b) == FALSE

\* the staged segment can be promoted: db.nextReady && db.next != nil
CanPromote(b) == nextReady[b] /\ next[b] # 0

\* the double check left out: every caller that took the mutex switches
InLockNeverWithin(v, s) == FALSE

\* the double check under the mutex: id <= db.current.Max
InLockWithin(v, s) == v <= segs[s].Max

\* if id := atomic.AddInt64(&db.current.Cursor, 1); id <= db.current.Max
\* { return id, nil }, else the choice between promotion and fallback
Recheck(c) ==
    /\ pc[c] = "recheck"
    /\ LET b == bufOf[c]
           s == current[b]
           v == segs[s].Cursor + 1 IN
        /\ segs' = AddCursor(s)
        /\ IF InLockWithin(v, s)
           THEN /\ pc' = [pc EXCEPT ![c] = "idle"]
                /\ loc' = [loc EXCEPT ![c] = NoLoc]
                /\ res' = [res EXCEPT ![c] = "id"]
                /\ log' = Logged(c, v, s)
                /\ mu' = Unlock(b)
           ELSE /\ IF CanPromote(b)
                   THEN /\ pc' = [pc EXCEPT ![c] = "promote"]
                        /\ UNCHANGED loc
                   ELSE /\ pc' = [pc EXCEPT ![c] = "tx_update"]
                        /\ loc' = [loc EXCEPT ![c].site = "fallback"]
                /\ UNCHANGED <<res, log, mu>>
    /\ UNCHANGED <<storeVars, bizTag, current, next, nextReady, isLoading,
                   bufOf, failed>>

\* db.current = db.next; db.next = nil; db.nextReady = false
Promote(c) ==
    /\ pc[c] = "promote"
    /\ LET b == bufOf[c] IN
        /\ current' = [current EXCEPT ![b] = next[b]]
        /\ next' = [next EXCEPT ![b] = 0]
        /\ nextReady' = [nextReady EXCEPT ![b] = FALSE]
    /\ pc' = [pc EXCEPT ![c] = "switched_add"]
    /\ UNCHANGED <<storeVars, segs, bizTag, isLoading, mu, bufOf, loc, res,
                   log, failed>>

\* db.current = seg; db.next = nil; db.nextReady = false
Install(c) ==
    /\ pc[c] = "install"
    /\ LET b == bufOf[c] IN
        /\ current' = [current EXCEPT ![b] = loc[c].seg]
        /\ next' = [next EXCEPT ![b] = 0]
        /\ nextReady' = [nextReady EXCEPT ![b] = FALSE]
    /\ pc' = [pc EXCEPT ![c] = "switched_add"]
    /\ loc' = [loc EXCEPT ![c].seg = 0, ![c].site = "none"]
    /\ UNCHANGED <<storeVars, segs, bizTag, isLoading, mu, bufOf, res, log,
                   failed>>

\* id := atomic.AddInt64(&db.current.Cursor, 1); return id, nil
\* (after either switch), then the deferred db.mu.Unlock()
SwitchedAdd(c) ==
    /\ pc[c] = "switched_add"
    /\ LET b == bufOf[c]
           s == current[b]
           v == segs[s].Cursor + 1 IN
        /\ segs' = AddCursor(s)
        /\ log' = Logged(c, v, s)
        /\ mu' = Unlock(b)
    /\ pc' = [pc EXCEPT ![c] = "idle"]
    /\ loc' = [loc EXCEPT ![c] = NoLoc]
    /\ res' = [res EXCEPT ![c] = "id"]
    /\ UNCHANGED <<storeVars, bizTag, current, next, nextReady, isLoading,
                   bufOf, failed>>

\* the nil result of the failed fetch assigned to current before the error check
AfterFetchErrInstalled(c) ==
    [current |-> [current EXCEPT ![bufOf[c]] = loc[c].seg], next |-> next,
     nextReady |-> nextReady]

\* the buffer fields a failed fallback fetch leaves behind: untouched
AfterFetchErr(c) ==
    [current |-> current, next |-> next, nextReady |-> nextReady]

\* if err != nil { return 0, err }, then the deferred db.mu.Unlock()
FetchErr(c) ==
    /\ pc[c] = "fetch_err"
    /\ current' = AfterFetchErr(c).current
    /\ next' = AfterFetchErr(c).next
    /\ nextReady' = AfterFetchErr(c).nextReady
    /\ mu' = Unlock(bufOf[c])
    /\ pc' = [pc EXCEPT ![c] = "idle"]
    /\ loc' = [loc EXCEPT ![c] = NoLoc]
    /\ res' = [res EXCEPT ![c] = "err_fallback"]
    /\ UNCHANGED <<storeVars, segs, bizTag, isLoading, bufOf, log, failed>>

\* ---- DoubleBuffer.CheckAndLoadNext ----

\* if db.nextReady || ... { return }: the left operand
ChkReady(c) ==
    /\ pc[c] = "chk_ready"
    /\ IF nextReady[bufOf[c]]
       THEN ReturnFast(c)
       ELSE /\ pc' = [pc EXCEPT ![c] = "chk_loading"]
            /\ UNCHANGED <<loc, res, log>>
    /\ UNCHANGED <<storeVars, segs, bizTag, bufVars, bufOf, failed>>

\* ... || atomic.LoadInt32(&db.isLoading) == 1 { return }
ChkLoading(c) ==
    /\ pc[c] = "chk_loading"
    /\ IF isLoading[bufOf[c]] = 1
       THEN ReturnFast(c)
       ELSE /\ pc' = [pc EXCEPT ![c] = "chk_remaining"]
            /\ UNCHANGED <<loc, res, log>>
    /\ UNCHANGED <<storeVars, segs, bizTag, bufVars, bufOf, failed>>

\* the segment is running low: !(db.current.Remaining() > threshold)
RunningLow(s) == ~(Remaining(s) > Threshold(segs[s].Step))

\* threshold := ...; if db.current.Remaining() > threshold { return }
ChkRemaining(c) ==
    /\ pc[c] = "chk_remaining"
    /\ IF RunningLow(current[bufOf[c]])
       THEN /\ pc' = [pc EXCEPT ![c] = "chk_cas"]
            /\ UNCHANGED <<loc, res, log>>
       ELSE ReturnFast(c)
    /\ UNCHANGED <<storeVars, segs, bizTag, bufVars, bufOf, failed>>

\* a plain store in place of the compare-and-set: always succeeds
CasAlwaysSucceeds(b) == TRUE

\* atomic.CompareAndSwapInt32(&db.isLoading, 0, 1) succeeds
CasLoading(b) == isLoading[b] = 0

\* the goroutine the go statement starts
FreeTask ==
    CHOOSE t \in Tasks : pc[t] = "idle" /\ \A u \in Tasks : pc[u] = "idle" => t <= u

\* if atomic.CompareAndSwapInt32(&db.isLoading, 0, 1) { go func() {...}() }
ChkCas(c) ==
    /\ pc[c] = "chk_cas"
    /\ LET b == bufOf[c] IN
        IF CasLoading(b)
        THEN /\ \E t \in Tasks : pc[t] = "idle"
             /\ isLoading' = [isLoading EXCEPT ![b] = 1]
             /\ pc' = [pc EXCEPT ![c] = "idle", ![FreeTask] = "tx_update"]
             /\ loc' = [loc EXCEPT ![c] = NoLoc, ![FreeTask].site = "prefetch"]
             /\ bufOf' = [bufOf EXCEPT ![FreeTask] = b]
             /\ segs' = [segs EXCEPT ![current[b]].pf = @ + 1]
        ELSE /\ pc' = [pc EXCEPT ![c] = "idle"]
             /\ loc' = [loc EXCEPT ![c] = NoLoc]
             /\ UNCHANGED <<isLoading, bufOf, segs>>
    /\ res' = [res EXCEPT ![c] = "id"]
    /\ log' = Logged(c, loc[c].id, loc[c].src)
    /\ UNCHANGED <<storeVars, bizTag, current, next, nextReady, mu, failed>>

\* the staging done without taking the mutex
StagedUnlocked(b) == TRUE

\* db.mu.Lock() of the task is granted: nobody holds the mutex
StagedLocked(b) == mu[b] = None

\* db.mu.Lock(); db.next = seg; db.nextReady = true; db.mu.Unlock()
TaskStage(t) ==
    /\ pc[t] = "t_stage"
    /\ LET b == bufOf[t] IN
        /\ StagedLocked(b)
        /\ next' = [next EXCEPT ![b] = loc[t].seg]
        /\ nextReady' = [nextReady EXCEPT ![b] = TRUE]
    /\ pc' = [pc EXCEPT ![t] = "t_reset"]
    /\ loc' = [loc EXCEPT ![t].seg = 0]
    /\ UNCHANGED <<storeVars, segs, bizTag, current, isLoading, mu, bufOf,
                   res, log, failed>>

\* the deferred store left out
StoreSkipped(b) == isLoading

\* atomic.StoreInt32(&db.isLoading, 0)
StoreIdle(b) == [isLoading EXCEPT ![b] = 0]

\* defer atomic.StoreInt32(&db.isLoading, 0), on either return
TaskReset(t) ==
    /\ pc[t] = "t_reset"
    /\ isLoading' = StoreIdle(bufOf[t])
    /\ pc' = [pc EXCEPT ![t] = "idle"]
    /\ loc' = [loc EXCEPT ![t] = NoLoc]
    /\ bufOf' = [bufOf EXCEPT ![t] = 1]
    /\ UNCHANGED <<storeVars, segs, bizTag, current, next, nextReady, mu,
                   res, log, failed>>

\* ---- LeafServer.GetID ----

\* the DoubleBuffer object NewDoubleBuffer allocates: the first one no tag
\* maps to (the buffer of a failed Init is unreachable and its fields are
\* still zero, so its place is taken again)
FreshBuf ==
    CHOOSE b \in Bufs :
        /\ \A t \in RegTags : buffers[t] # b
        /\ \A d \in Bufs : (\A t \in RegTags : buffers[t] # d) => b <= d

\* a goroutine calls GetID(tag)
GetID(c, tag) ==
    /\ gpc[c] = "idle"
    /\ pc[c] = "idle"
    /\ gets[c] < MaxGets
    /\ gpc' = [gpc EXCEPT ![c] = "rlock"]
    /\ gtag' = [gtag EXCEPT ![c] = tag]
    /\ gets' = [gets EXCEPT ![c] = @ + 1]
    /\ UNCHANGED <<storeVars, segs, bizTag, bufVars, bufOf, pc, loc, res, log,
                   failed, buffers, smu, gerr>>

\* s.mu.RLock(): waits while a writer holds the lock
GetRLock(c) ==
    /\ gpc[c] = "rlock"
    /\ smu.w = None
    /\ smu' = [smu EXCEPT !.r = @ \cup {c}]
    /\ gpc' = [gpc EXCEPT ![c] = "lookup"]
    /\ UNCHANGED <<storeVars, segs, bizTag, bufVars, bufOf, pc, loc, res, log,
                   failed, buffers, gtag, gets, gerr>>

\* buf, ok := s.buffers[bizTag]; s.mu.RUnlock(); if ok { return buf.NextID() }
GetLookup(c) ==
    /\ gpc[c] = "lookup"
    /\ smu' = [smu EXCEPT !.r = @ \ {c}]
    /\ IF buffers[gtag[c]] # 0
       THEN /\ bufOf' = [bufOf EXCEPT ![c] = buffers[gtag[c]]]
            /\ gpc' = [gpc EXCEPT ![c] = "nextid"]
       ELSE /\ gpc' = [gpc EXCEPT ![c] = "lock"]
            /\ UNCHANGED bufOf
    /\ UNCHANGED <<storeVars, segs, bizTag, bufVars, pc, loc, res, log,
                   failed, buffers, gtag, gets, gerr>>

\* s.mu.Lock(); defer s.mu.Unlock(): waits for the writer and the readers
GetLock(c) ==
    /\ gpc[c] = "lock"
    /\ smu.w = None
    /\ smu.r = {}
    /\ smu' = [smu EXCEPT !.w = c]
    /\ gpc' = [gpc EXCEPT ![c] = "recheck"]
    /\ UNCHANGED <<storeVars, segs, bizTag, bufVars, bufOf, pc, loc, res, log,
                   failed, buffers, gtag, gets, gerr>>

\* a slow path that constructs a buffer without looking at the map again
DoubleCheckSkipped(tag) == FALSE

\* buf, ok = s.buffers[bizTag] under the write lock: ok
DoubleChecked(tag) == buffers[tag] # 0

\* if ok { return buf.NextID() }; buf = NewDoubleBuffer(bizTag, s.dao)
GetRecheck(c) ==
    /\ gpc[c] = "recheck"
    /\ IF DoubleChecked(gtag[c])
       THEN /\ bufOf' = [bufOf EXCEPT ![c] = buffers[gtag[c]]]
            /\ gpc' = [gpc EXCEPT ![c] = "nextid_locked"]
            /\ UNCHANGED bizTag
       ELSE /\ bufOf' = [bufOf EXCEPT ![c] = FreshBuf]
            /\ bizTag' = [bizTag EXCEPT ![FreshBuf] = gtag[c]]
            /\ gpc' = [gpc EXCEPT ![c] = "init"]
    /\ UNCHANGED <<storeVars, segs, bufVars, pc, loc, res, log, failed,
                   buffers, smu, gtag, gets, gerr>>

\* buf.Init(): the call
GetInit(c) ==
    /\ gpc[c] = "init"
    /\ InitCall(c)
    /\ gpc' = [gpc EXCEPT ![c] = "in_init"]
    /\ UNCHANGED <<buffers, smu, gtag, gets, gerr>>

\* buf.Init() returns nil
GetInitOk(c) ==
    /\ gpc[c] = "in_init"
    /\ InitOk(c)
    /\ gpc' = [gpc EXCEPT ![c] = "insert"]
    /\ UNCHANGED <<buffers, smu, gtag, gets, gerr>>

\* fmt.Errorf(format, err) with %w: a new error whose chain is the message
\* and then the chain of err
Errorf(msg, err) == <<msg>> \o err

\* Init's return err: the error FetchNextSegment returned
InitError(c) == loc[c].err

\* NextID's return 0, err after the fallback fetch
NextIDError(c) == loc[c].err

\* fmt.Errorf("failed to initialize double buffer: %w", err)
InitFailed(err) == Errorf("failed to initialize double buffer", err)

\* the buffer whose Init failed put into the map all the same
MapAfterInitErrInserted(c) == [buffers EXCEPT ![gtag[c]] = bufOf[c]]

\* the map a failed Init leaves behind: untouched
MapAfterInitErr(c) == buffers

\* if err := buf.Init(); err != nil { return 0, fmt.Errorf(...) }, then the
\* deferred s.mu.Unlock()
GetInitErr(c) ==
    /\ gpc[c] = "in_init"
    /\ InitErr(c)
    /\ buffers' = MapAfterInitErr(c)
    /\ smu' = [smu EXCEPT !.w = None]
    /\ gpc' = [gpc EXCEPT ![c] = "idle"]
    /\ gerr' = [gerr EXCEPT ![c] = [ret |-> InitFailed(InitError(c)),
                                    store |-> loc[c].err]]
    /\ UNCHANGED <<gtag, gets>>

\* a map made anew with the one entry
InsertedAlone(c) == [t \in RegTags |-> IF t = gtag[c] THEN bufOf[c] ELSE 0]

\* the map after s.buffers[bizTag] = buf
Inserted(c) == [buffers EXCEPT ![gtag[c]] = bufOf[c]]

\* s.buffers[bizTag] = buf
GetInsert(c) ==
    /\ gpc[c] = "insert"
    /\ buffers' = Inserted(c)
    /\ gpc' = [gpc EXCEPT ![c] = "nextid_locked"]
    /\ UNCHANGED <<storeVars, segs, bizTag, bufVars, bufOf, pc, loc, res, log,
                   failed, smu, gtag, gets, gerr>>

\* return buf.NextID(): when the step of NextID returns, GetID returns, and
\* the deferred s.mu.Unlock() runs if the slow path made the call
GetReturn(c) ==
    IF pc'[c] = "idle"
    THEN /\ gpc' = [gpc EXCEPT ![c] = "idle"]
         /\ smu' = IF gpc[c] = "nextid_locked" THEN [smu EXCEPT !.w = None]
                                               ELSE smu
         /\ gerr' = IF pc[c] = "fetch_err"
                    THEN [gerr EXCEPT ![c] = [ret |-> NextIDError(c),
                                              store |-> loc[c].err]]
                    ELSE gerr
    ELSE UNCHANGED <<gpc, smu, gerr>>

\* a step of buf.NextID() made from GetID
ViaGetID(c, step) ==
    /\ gpc[c] \in {"nextid", "nextid_locked"}
    /\ step
    /\ GetReturn(c)
    /\ UNCHANGED <<buffers, gtag, gets>>

\* ---- the system ----

Next ==
    \/ \E p \in Procs : TxUpdate(p) /\ UNCHANGED <<regVars, extVars>>
    \/ \E p \in Procs : TxSelect(p) /\ UNCHANGED <<regVars, extVars>>
    \/ \E p \in Procs : TxCommit(p) /\ UNCHANGED <<regVars, extVars>>
    \/ \E p \in Procs : TxFail(p) /\ UNCHANGED <<regVars, extVars>>
    \/ \E c \in Callers : InitCall(c) /\ UNCHANGED <<regVars, extVars>>
    \/ \E c \in Callers : InitOk(c) /\ UNCHANGED <<regVars, extVars>>
    \/ \E c \in Callers : InitErr(c) /\ UNCHANGED <<regVars, extVars>>
    \/ \E c \in Callers : NextIDNil(c) /\ UNCHANGED <<regVars, extVars>>
    \/ \E c \in Callers : FastAdd(c) /\ UNCHANGED <<regVars, extVars>>
    \/ \E c \in Callers : FastCheck(c) /\ UNCHANGED <<regVars, extVars>>
    \/ \E c \in Callers : Lock(c) /\ UNCHANGED <<regVars, extVars>>
    \/ \E c \in Callers : Recheck(c) /\ UNCHANGED <<regVars, extVars>>
    \/ \E c \in Callers : Promote(c) /\ UNCHANGED <<regVars, extVars>>
    \/ \E c \in Callers : Install(c) /\ UNCHANGED <<regVars, extVars>>
    \/ \E c \in Callers : SwitchedAdd(c) /\ UNCHANGED <<regVars, extVars>>
    \/ \E c \in Callers : FetchErr(c) /\ UNCHANGED <<regVars, extVars>>
    \/ \E c \in Callers : ChkReady(c) /\ UNCHANGED <<regVars, extVars>>
    \/ \E c \in Callers : ChkLoading(c) /\ UNCHANGED <<regVars, extVars>>
    \/ \E c \in Callers : ChkRemaining(c) /\ UNCHANGED <<regVars, extVars>>
    \/ \E c \in Callers : ChkCas(c) /\ UNCHANGED <<regVars, extVars>>
    \/ \E t \in Tasks : TaskStage(t) /\ UNCHANGED <<regVars, extVars>>
    \/ \E t \in Tasks : TaskReset(t) /\ UNCHANGED <<regVars, extVars>>

Spec == Init /\ [][Next]_vars

\* ---- the registry: goroutines calling LeafServer.GetID ----

RegInit ==
    /\ dbMaxId = [t \in RegTags |-> InitMaxId]
    /\ dbStep = [t \in RegTags |-> MaxStep]
    /\ rowLock = [t \in RegTags |-> None]
    /\ segs = <<>>
    /\ bizTag = [b \in Bufs |-> "order-service"]
    /\ current = [b \in Bufs |-> 0]
    /\ next = [b \in Bufs |-> 0]
    /\ nextReady = [b \in Bufs |-> FALSE]
    /\ isLoading = [b \in Bufs |-> 0]
    /\ mu = [b \in Bufs |-> None]
    /\ bufOf = [p \in Procs |-> 1]
    /\ pc = [p \in Procs |-> "idle"]
    /\ loc = [p \in Procs |-> NoLoc]
    /\ res = [c \in Callers |-> "none"]
    /\ log = [b \in Bufs |-> <<>>]
    /\ failed = <<>>
    /\ NewLeafServer
    /\ NewGenerator
    /\ NoCodec
    /\ NewSnowflakeDriver
    /\ NoDriver

RegNext ==
    \/ \E c \in Callers : \E tag \in RegTags : GetID(c, tag) /\ UNCHANGED extVars
    \/ \E c \in Callers : GetRLock(c) /\ UNCHANGED extVars
    \/ \E c \in Callers : GetLookup(c) /\ UNCHANGED extVars
    \/ \E c \in Callers : GetLock(c) /\ UNCHANGED extVars
    \/ \E c \in Callers : GetRecheck(c) /\ UNCHANGED extVars
    \/ \E c \in Callers : GetInit(c) /\ UNCHANGED extVars
    \/ \E c \in Callers : GetInitOk(c) /\ UNCHANGED extVars
    \/ \E c \in Callers : GetInitErr(c) /\ UNCHANGED extVars
    \/ \E c \in Callers : GetInsert(c) /\ UNCHANGED extVars
    \/ \E p \in Procs : TxUpdate(p) /\ UNCHANGED <<regVars, extVars>>
    \/ \E p \in Procs : TxSelect(p) /\ UNCHANGED <<regVars, extVars>>
    \/ \E p \in Procs : TxCommit(p) /\ UNCHANGED <<regVars, extVars>>
    \/ \E p \in Procs : TxFail(p) /\ UNCHANGED <<regVars, extVars>>
    \/ \E c \in Callers : ViaGetID(c, FastAdd(c)) /\ UNCHANGED extVars
    \/ \E c \in Callers : ViaGetID(c, FastCheck(c)) /\ UNCHANGED extVars
    \/ \E c \in Callers : ViaGetID(c, Lock(c)) /\ UNCHANGED extVars
    \/ \E c \in Callers : ViaGetID(c, Recheck(c)) /\ UNCHANGED extVars
    \/ \E c \in Callers : ViaGetID(c, Promote(c)) /\ UNCHANGED extVars
    \/ \E c \in Callers : ViaGetID(c, Install(c)) /\ UNCHANGED extVars
    \/ \E c \in Callers : ViaGetID(c, SwitchedAdd(c)) /\ UNCHANGED extVars
    \/ \E c \in Callers : ViaGetID(c, FetchErr(c)) /\ UNCHANGED extVars
    \/ \E c \in Callers : ViaGetID(c, ChkReady(c)) /\ UNCHANGED extVars
    \/ \E c \in Callers : ViaGetID(c, ChkLoading(c)) /\ UNCHANGED extVars
    \/ \E c \in Callers : ViaGetID(c, ChkRemaining(c)) /\ UNCHANGED extVars
    \/ \E c \in Callers : ViaGetID(c, ChkCas(c)) /\ UNCHANGED extVars
    \/ \E t \in Tasks : TaskStage(t) /\ UNCHANGED <<regVars, extVars>>
    \/ \E t \in Tasks : TaskReset(t) /\ UNCHANGED <<regVars, extVars>>

RegSpec == RegInit /\ [][RegNext]_vars

\* ---- two goroutines on one DoubleBuffer, the store answering every call ----

\* both callers work on the DoubleBuffer NumBufs, whose Init is called first
SharedInit ==
    /\ dbMaxId = [t \in Tags |-> InitMaxId]
    /\ dbStep = [t \in Tags |-> MaxStep]
    /\ rowLock = [t \in Tags |-> None]
    /\ segs = <<>>
    /\ bizTag = [b \in Bufs |-> "order-service"]
    /\ current = [b \in Bufs |-> 0]
    /\ next = [b \in Bufs |-> 0]
    /\ nextReady = [b \in Bufs |-> FALSE]
    /\ isLoading = [b \in Bufs |-> 0]
    /\ mu = [b \in Bufs |-> None]
    /\ bufOf = [p \in Procs |-> IF p \in Callers THEN NumBufs ELSE 1]
    /\ pc = [p \in Procs |-> "idle"]
    /\ loc = [p \in Procs |-> NoLoc]
    /\ res = [c \in Callers |-> "none"]
    /\ log = [b \in Bufs |-> <<>>]
    /\ failed = <<>>
    /\ NewLeafServer
    /\ NewGenerator
    /\ NoCodec
    /\ NewSnowflakeDriver
    /\ NoDriver

\* a goroutine calls NextID, at most MaxGets + 1 times
CallNextID(c) ==
    /\ gets[c] < MaxGets + 1
    /\ FastAdd(c)
    /\ gets' = [gets EXCEPT ![c] = @ + 1]
    /\ UNCHANGED <<buffers, smu, gpc, gtag, gerr>>

SharedNext ==
    \/ \E p \in Procs : TxUpdate(p) /\ UNCHANGED <<regVars, extVars>>
    \/ \E p \in Procs : TxSelect(p) /\ UNCHANGED <<regVars, extVars>>
    \/ \E p \in Procs : TxCommit(p) /\ UNCHANGED <<regVars, extVars>>
    \/ \E c \in Callers : InitCall(c) /\ UNCHANGED <<regVars, extVars>>
    \/ \E c \in Callers : InitOk(c) /\ UNCHANGED <<regVars, extVars>>
    \/ \E c \in Callers : CallNextID(c) /\ UNCHANGED extVars
    \/ \E c \in Callers : FastCheck(c) /\ UNCHANGED <<regVars, extVars>>
    \/ \E c \in Callers : Lock(c) /\ UNCHANGED <<regVars, extVars>>
    \/ \E c \in Callers : Recheck(c) /\ UNCHANGED <<regVars, extVars>>
    \/ \E c \in Callers : Promote(c) /\ UNCHANGED <<regVars, extVars>>
    \/ \E c \in Callers : Install(c) /\ UNCHANGED <<regVars, extVars>>
    \/ \E c \in Callers : SwitchedAdd(c) /\ UNCHANGED <<regVars, extVars>>
    \/ \E c \in Callers : ChkReady(c) /\ UNCHANGED <<regVars, extVars>>
    \/ \E c \in Callers : ChkLoading(c) /\ UNCHANGED <<regVars, extVars>>
    \/ \E c \in Callers : ChkRemaining(c) /\ UNCHANGED <<regVars, extVars>>
    \/ \E c \in Callers : ChkCas(c) /\ UNCHANGED <<regVars, extVars>>
    \/ \E t \in Tasks : TaskStage(t) /\ UNCHANGED <<regVars, extVars>>
    \/ \E t \in Tasks : TaskReset(t) /\ UNCHANGED <<regVars, extVars>>

SharedSpec == SharedInit /\ [][SharedNext]_vars

\* ---- the same two goroutines with a scheduler that lets every goroutine ----
\* ---- run, a store that answers and a mutex that is granted            ----

\* the goroutines inside a call, and the running tasks: each can take one
\* more segment from the store
Active == {p \in Procs : pc[p] # "idle"}

\* a call is made while the store has a segment left for it
Budget == Len(segs) + Cardinality(Active) < SegCap

LiveNext ==
    \/ \E p \in Procs : TxUpdate(p) /\ UNCHANGED <<regVars, extVars>>
    \/ \E p \in Procs : TxSelect(p) /\ UNCHANGED <<regVars, extVars>>
    \/ \E p \in Procs : TxCommit(p) /\ UNCHANGED <<regVars, extVars>>
    \/ \E p \in Procs : TxFail(p) /\ UNCHANGED <<regVars, extVars>>
    \/ \E c \in Callers : Budget /\ InitCall(c) /\ UNCHANGED <<regVars, extVars>>
    \/ \E c \in Callers : InitOk(c) /\ UNCHANGED <<regVars, extVars>>
    \/ \E c \in Callers : InitErr(c) /\ UNCHANGED <<regVars, extVars>>
    \/ \E c \in Callers : Budget /\ CallNextID(c) /\ UNCHANGED extVars
    \/ \E c \in Callers : FastCheck(c) /\ UNCHANGED <<regVars, extVars>>
    \/ \E c \in Callers : Lock(c) /\ UNCHANGED <<regVars, extVars>>
    \/ \E c \in Callers : Recheck(c) /\ UNCHANGED <<regVars, extVars>>
    \/ \E c \in Callers : Promote(c) /\ UNCHANGED <<regVars, extVars>>
    \/ \E c \in Callers : Install(c) /\ UNCHANGED <<regVars, extVars>>
    \/ \E c \in Callers : SwitchedAdd(c) /\ UNCHANGED <<regVars, extVars>>
    \/ \E c \in Callers : FetchErr(c) /\ UNCHANGED <<regVars, extVars>>
    \/ \E c \in Callers : ChkReady(c) /\ UNCHANGED <<regVars, extVars>>
    \/ \E c \in Callers : ChkLoading(c) /\ UNCHANGED <<regVars, extVars>>
    \/ \E c \in Callers : ChkRemaining(c) /\ UNCHANGED <<regVars, extVars>>
    \/ \E c \in Callers : ChkCas(c) /\ UNCHANGED <<regVars, extVars>>
    \/ \E t \in Tasks : TaskStage(t) /\ UNCHANGED <<regVars, extVars>>
    \/ \E t \in Tasks : TaskReset(t) /\ UNCHANGED <<regVars, extVars>>

\* the steps of goroutine p once it is inside a call
Continue(p) ==
    /\ pc[p] # "idle"
    /\ LiveNext
    /\ pc'[p] # pc[p]

\* a goroutine that can take a step takes one; a store call that finds the
\* row free again and again gets it; a goroutine that finds the mutex free
\* again and again gets it
Fairness ==
    /\ \A p \in Procs : WF_vars(Continue(p))
    /\ \A p \in Procs : SF_vars(TxUpdate(p) /\ UNCHANGED <<regVars, extVars>>)
    /\ \A c \in Callers : SF_vars(Lock(c) /\ UNCHANGED <<regVars, extVars>>)
    /\ \A t \in Tasks : SF_vars(TaskStage(t) /\ UNCHANGED <<regVars, extVars>>)

LiveSpec == SharedInit /\ [][LiveNext]_vars /\ Fairness

\* ---- goroutines calling GetID with a scheduler that lets every goroutine ----
\* ---- run, locks that are granted and a store that answers every call   ----

RegLiveNext ==
    \/ \E c \in Callers : \E tag \in RegTags : GetID(c, tag) /\ UNCHANGED extVars
    \/ \E c \in Callers : GetRLock(c) /\ UNCHANGED extVars
    \/ \E c \in Callers : GetLookup(c) /\ UNCHANGED extVars
    \/ \E c \in Callers : GetLock(c) /\ UNCHANGED extVars
    \/ \E c \in Callers : GetRecheck(c) /\ UNCHANGED extVars
    \/ \E c \in Callers : GetInit(c) /\ UNCHANGED extVars
    \/ \E c \in Callers : GetInitOk(c) /\ UNCHANGED extVars
    \/ \E c \in Callers : GetInitErr(c) /\ UNCHANGED extVars
    \/ \E c \in Callers : GetInsert(c) /\ UNCHANGED extVars
    \/ \E p \in Procs : TxUpdate(p) /\ UNCHANGED <<regVars, extVars>>
    \/ \E p \in Procs : TxSelect(p) /\ UNCHANGED <<regVars, extVars>>
    \/ \E p \in Procs : TxCommit(p) /\ UNCHANGED <<regVars, extVars>>
    \/ \E p \in Procs : TxFail(p) /\ UNCHANGED <<regVars, extVars>>
    \/ \E c \in Callers : ViaGetID(c, FastAdd(c)) /\ UNCHANGED extVars
    \/ \E c \in Callers : ViaGetID(c, FastCheck(c)) /\ UNCHANGED extVars
    \/ \E c \in Callers : ViaGetID(c, Lock(c)) /\ UNCHANGED extVars
    \/ \E c \in Callers : ViaGetID(c, Recheck(c)) /\ UNCHANGED extVars
    \/ \E c \in Callers : ViaGetID(c, Promote(c)) /\ UNCHANGED extVars
    \/ \E c \in Callers : ViaGetID(c, Install(c)) /\ UNCHANGED extVars
    \/ \E c \in Callers : ViaGetID(c, SwitchedAdd(c)) /\ UNCHANGED extVars
    \/ \E c \in Callers : ViaGetID(c, FetchErr(c)) /\ UNCHANGED extVars
    \/ \E c \in Callers : ViaGetID(c, ChkReady(c)) /\ UNCHANGED extVars
    \/ \E c \in Callers : ViaGetID(c, ChkLoading(c)) /\ UNCHANGED extVars
    \/ \E c \in Callers : ViaGetID(c, ChkRemaining(c)) /\ UNCHANGED extVars
    \/ \E c \in Callers : ViaGetID(c, ChkCas(c)) /\ UNCHANGED extVars
    \/ \E t \in Tasks : TaskStage(t) /\ UNCHANGED <<regVars, extVars>>
    \/ \E t \in Tasks : TaskReset(t) /\ UNCHANGED <<regVars, extVars>>
    \/ \E p \in Procs : TxRefuse(p) /\ UNCHANGED <<regVars, extVars>>

\* the steps of caller c once it is inside GetID
GetContinue(c) ==
    /\ gpc[c] # "idle"
    /\ RegLiveNext
    /\ gpc'[c] # gpc[c] \/ pc'[c] # pc[c]

\* the steps of the prefetch task t once it is started
TaskContinue(t) ==
    /\ pc[t] # "idle"
    /\ RegLiveNext
    /\ pc'[t] # pc[t]

\* a goroutine that can take a step again and again takes one: the scheduler
\* runs every goroutine, a lock that is free again and again is granted to
\* the goroutine waiting for it, and the store answers every statement
RegFairness ==
    /\ \A c \in Callers : SF_vars(GetContinue(c))
    /\ \A t \in Tasks : SF_vars(TaskContinue(t))

RegLiveSpec == RegInit /\ [][RegLiveNext]_vars /\ RegFairness

\* ---- UUID (uuid.go) and the UUIDv7 Generator ----

\* a UUID is a sequence of 16 bytes; byte i of the Go array is u[i + 1]

RECURSIVE BitAnd(_, _)
\* a & b
BitAnd(a, b) ==
    IF a = 0 \/ b = 0 THEN 0
    ELSE (a % 2) * (b % 2) + 2 * BitAnd(a \div 2, b \div 2)

RECURSIVE BitOr(_, _)
\* a | b
BitOr(a, b) ==
    IF a = 0 THEN b
    ELSE IF b = 0 THEN a
    ELSE (IF a % 2 = 1 \/ b % 2 = 1 THEN 1 ELSE 0)
            + 2 * BitOr(a \div 2, b \div 2)

RECURSIVE BigEndian(_, _)
\* binary.BigEndian.PutUint64 / PutUint16: the low n bytes of v, high first
BigEndian(v, n) ==
    IF n = 0 THEN <<>> ELSE Append(BigEndian(v \div 256, n - 1), v % 256)

\* binary.BigEndian.Uint16(b)
Uint16(b) == b[1] * 256 + b[2]

\* UUID.Version: Version(u[6] >> 4)
Version(u) == u[7] \div 16

\* UUID.Variant
Variant(u) ==
    CASE BitAnd(u[9], 128) = 0 -> VariantNCS
      [] BitAnd(u[9], 192) = 128 -> VariantRFC4122
      [] BitAnd(u[9], 224) = 192 -> VariantMicrosoft
      [] OTHER -> VariantFuture

\* UUID.Timestamp: uint64(u[0])<<40 | ... | uint64(u[5]), 0 unless version 7
Timestamp(u) ==
    IF Version(u) # VersionTimeSorted THEN 0
    ELSE ((((u[1] * 256 + u[2]) * 256 + u[3]) * 256 + u[4]) * 256 + u[5]) * 256
            + u[6]

RECURSIVE CompareFrom(_, _, _)
\* the loop of UUID.Compare from byte i on
CompareFrom(u, v, i) ==
    IF i > 16 THEN 0
    ELSE IF u[i] < v[i] THEN -1
    ELSE IF u[i] > v[i] THEN 1
    ELSE CompareFrom(u, v, i + 1)

\* UUID.Compare
Compare(u, v) == CompareFrom(u, v, 1)

\* the inputs: t.UnixMilli(), and what the random source delivers
Times == 1..MaxMilli
RandSeq == {<<0, 0>>, <<15, 254>>, <<255, 255>>}
RandTail == {[i \in 1..8 |-> 0], [i \in 1..8 |-> 255]}

\* A uint64 is written as the integer nearest 0 that is congruent to it
\* modulo 2^64: uint64(t.UnixMilli()) of an instant n ms before 1970 is -n,
\* which stands for 2^64 - n, and + 1 takes 2^64 - 1 (written -1) to 0.

\* a <= b on uint64
LeUint64(a, b) == IF (a < 0) = (b < 0) THEN a <= b ELSE a >= 0

\* the monotonicity block of NewWithTime: the timestamp to encode (ts) and
\* the new clockSeq and lastTimestamp, rb being the two random bytes read
\* when the timestamp is new
Advance(t, rb) ==
    IF LeUint64(t, lastTimestamp)
    THEN LET s == (clockSeq + 1) % 65536 IN
            IF s > MaxClockSeq
            THEN [ts |-> lastTimestamp + 1, seq |-> 0,
                  last |-> lastTimestamp + 1]
            ELSE [ts |-> t, seq |-> s, last |-> lastTimestamp]
    ELSE [ts |-> t, seq |-> BitAnd(Uint16(rb), MaxClockSeq), last |-> t]

\* the time field written without the shift
TimeFieldUnshifted(ts) == BigEndian(ts, 8)

\* binary.BigEndian.PutUint64(uuid[0:8], timestamp<<16)
TimeField(ts) == BigEndian(ts * 65536, 8)

\* the variant bits set without clearing the two top bits first
VariantByteUnmasked(b) == BitOr(b, 128)

\* uuid[8] = (uuid[8] & 0x3F) | 0x80
VariantByte(b) == BitOr(BitAnd(b, 63), 128)

\* uuid[0:8] after the version and the clock sequence are written:
\* uuid[6] = byte(0x70 | (g.clockSeq >> 8)); uuid[7] = byte(g.clockSeq)
FirstHalf(ts, seq) ==
    [TimeField(ts) EXCEPT ![7] = BitOr(112, seq \div 256) % 256,
                          ![8] = seq % 256]

\* the record of a call in the history
Call(t, u, err) ==
    [t |-> t, last |-> lastTimestamp, seq |-> clockSeq, uuid |-> u, err |-> err]

\* NewWithTime(t) returning uuid, nil
NewWithTime(t, rb, tail) ==
    /\ Len(hist) < MaxCalls
    /\ LET a == Advance(t, rb)
           u == FirstHalf(a.ts, a.seq) \o [tail EXCEPT ![1] = VariantByte(@)] IN
        /\ clockSeq' = a.seq
        /\ lastTimestamp' = a.last
        /\ hist' = Append(hist, Call(t, u, FALSE))
    /\ UNCHANGED <<leafVars, regVars>>

\* NewWithTime(t) whose read of the two clock-sequence bytes fails:
\* return uuid, err with the Generator untouched
NewWithTimeSeqErr(t) ==
    /\ Len(hist) < MaxCalls
    /\ ~LeUint64(t, lastTimestamp)
    /\ hist' = Append(hist, Call(t, [i \in 1..16 |-> 0], TRUE))
    /\ UNCHANGED <<leafVars, regVars, clockSeq, lastTimestamp>>

\* NewWithTime(t) whose read of uuid[8:] fails: return uuid, err after the
\* Generator has advanced
NewWithTimeTailErr(t, rb) ==
    /\ Len(hist) < MaxCalls
    /\ LET a == Advance(t, rb)
           u == FirstHalf(a.ts, a.seq) \o [i \in 1..8 |-> 0] IN
        /\ clockSeq' = a.seq
        /\ lastTimestamp' = a.last
        /\ hist' = Append(hist, Call(t, u, TRUE))
    /\ UNCHANGED <<leafVars, regVars>>

GenNext ==
    \/ \E t \in Times : \E rb \in RandSeq : \E tail \in RandTail :
          NewWithTime(t, rb, tail) /\ UNCHANGED <<snowVars, codecVars, zkVars>>
    \/ \E t \in Times : NewWithTimeSeqErr(t) /\ UNCHANGED <<snowVars, codecVars, zkVars>>
    \/ \E t \in Times : \E rb \in RandSeq :
          NewWithTimeTailErr(t, rb) /\ UNCHANGED <<snowVars, codecVars, zkVars>>

GenSpec == RegInit /\ [][GenNext]_vars

\* ---- the Generator given any time.Time, instants before 1970 included ----

\* t.UnixMilli() of the instant 1 ms before 1970, and of the instants after it
WideTimes == {-1} \cup Times

GenWideNext ==
    \/ \E t \in WideTimes : \E rb \in RandSeq : \E tail \in RandTail :
          NewWithTime(t, rb, tail) /\ UNCHANGED <<snowVars, codecVars, zkVars>>
    \/ \E t \in WideTimes :
          NewWithTimeSeqErr(t) /\ UNCHANGED <<snowVars, codecVars, zkVars>>
    \/ \E t \in WideTimes : \E rb \in RandSeq :
          NewWithTimeTailErr(t, rb) /\ UNCHANGED <<snowVars, codecVars, zkVars>>

GenWideSpec == RegInit /\ [][GenWideNext]_vars

\* ---- SnowflakeDriver (others/leafSnowflake/snowflake.go) ----

\* Times are ms since Epoch: a reading n of the clock stands for
\* time.Now().UnixNano() / 1e6 = Epoch + n, and now - Epoch is n.

WorkIdShift == SequenceBits
TimestampShift == SequenceBits + WorkerIdBits
\* -1 ^ (-1 << SequenceBits)
SequenceMask == 2 ^ SequenceBits - 1

\* x << n
ShiftLeft(x, n) == x * 2 ^ n

\* what a reading of the clock can give
Clock == 0..MaxClock

\* ((now - Epoch) << TimestampShift) | (d.workerID << WorkIdShift) | d.sequence
ComposeID(now, w, s) ==
    BitOr(BitOr(ShiftLeft(now, TimestampShift), ShiftLeft(w, WorkIdShift)), s)

\* the time and sequence fields of an id
TimeOf(id) == id \div 2 ^ TimestampShift
SeqOf(id) == id % 2 ^ SequenceBits

\* the spin leaving at once, in the millisecond that is used up
SpinDoneSameMs(now) == now >= lastTime

\* for now <= d.lastTime { ... }: the loop ends
SpinDone(now) == now > lastTime

\* the check after the sleep left out
StillBehindIgnored(now) == FALSE

\* if now < d.lastTime after the sleep
StillBehind(now) == now < lastTime

\* return 0, err: the mutex is released, the driver's fields stay
SfError(c, kind, first, via) ==
    /\ sfret' = [kind |-> kind, id |-> 0, first |-> first, last |-> lastTime,
                 via |-> via]
    /\ sfmu' = None
    /\ sfpc' = [sfpc EXCEPT ![c] = "idle"]
    /\ sfnow' = 0
    /\ UNCHANGED <<lastTime, sequence, workerID, lastId>>

\* d.lastTime = now; id := ...; return id, nil (and the deferred Unlock)
SfIssue(c, now, s, first, via) ==
    /\ sequence' = s
    /\ lastTime' = now
    /\ LET id == ComposeID(now, workerID, s) IN
          /\ lastId' = id
          /\ sfret' = [kind |-> "id", id |-> id, first |-> first,
                       last |-> lastTime, via |-> via]
    /\ sfmu' = None
    /\ sfpc' = [sfpc EXCEPT ![c] = "idle"]
    /\ sfnow' = 0
    /\ UNCHANGED workerID

\* d.sequence = (d.sequence + 1) & SequenceMask came out 0: the spin begins
SfSpinStart(c, first) ==
    /\ sequence' = 0
    /\ sfmu' = c
    /\ sfpc' = [sfpc EXCEPT ![c] = "spin"]
    /\ sfnow' = first
    /\ UNCHANGED <<lastTime, workerID, lastId, sfret>>

\* the if / else on now == d.lastTime, reached with now >= d.lastTime
SfStamp(c, now, first, via) ==
    IF now = lastTime
    THEN LET s == BitAnd(sequence + 1, SequenceMask) IN
            IF s = 0 THEN SfSpinStart(c, first)
            ELSE SfIssue(c, now, s, first, via)
    ELSE SfIssue(c, now, 0, first, via)

\* a goroutine calls NextID, takes the mutex and reads the clock
SfCall(c) ==
    /\ sfcalls < MaxSfCalls
    /\ sfpc[c] = "idle"
    /\ sfmu = None

\* NextID whose clock reading is at or after lastTime
SfNextID(c, now) ==
    /\ SfCall(c)
    /\ now >= lastTime
    /\ SfStamp(c, now, now, "direct")
    /\ sfcalls' = sfcalls + 1
    /\ UNCHANGED <<leafVars, regVars, genVars>>

\* NextID whose clock reading is more than 5 ms before lastTime
SfTooFar(c, now) ==
    /\ SfCall(c)
    /\ now < lastTime
    /\ lastTime - now > MaxBackwards
    /\ SfError(c, "err_far", now, "direct")
    /\ sfcalls' = sfcalls + 1
    /\ UNCHANGED <<leafVars, regVars, genVars>>

\* NextID whose clock reading is at most 5 ms before lastTime: time.Sleep
SfSleep(c, now) ==
    /\ SfCall(c)
    /\ now < lastTime
    /\ lastTime - now <= MaxBackwards
    /\ sfmu' = c
    /\ sfpc' = [sfpc EXCEPT ![c] = "slept"]
    /\ sfnow' = now
    /\ sfcalls' = sfcalls + 1
    /\ UNCHANGED <<lastTime, sequence, workerID, lastId, sfret>>
    /\ UNCHANGED <<leafVars, regVars, genVars>>

\* the clock read after the sleep
SfWake(c, now) ==
    /\ sfpc[c] = "slept"
    /\ IF StillBehind(now) THEN SfError(c, "err_behind", sfnow, "slept")
       ELSE SfStamp(c, now, sfnow, "slept")
    /\ UNCHANGED <<sfcalls, leafVars, regVars, genVars>>

\* a clock read of the spin that ends it
SfSpin(c, now) ==
    /\ sfpc[c] = "spin"
    /\ SpinDone(now)
    /\ SfIssue(c, now, sequence, sfnow, "spin")
    /\ UNCHANGED <<sfcalls, leafVars, regVars, genVars>>

SnowNext ==
    \/ \E c \in Callers : \E now \in Clock :
          SfNextID(c, now) /\ UNCHANGED <<codecVars, zkVars>>
    \/ \E c \in Callers : \E now \in Clock :
          SfTooFar(c, now) /\ UNCHANGED <<codecVars, zkVars>>
    \/ \E c \in Callers : \E now \in Clock :
          SfSleep(c, now) /\ UNCHANGED <<codecVars, zkVars>>
    \/ \E c \in Callers : \E now \in Clock :
          SfWake(c, now) /\ UNCHANGED <<codecVars, zkVars>>
    \/ \E c \in Callers : \E now \in Clock :
          SfSpin(c, now) /\ UNCHANGED <<codecVars, zkVars>>

\* the driver as constructed, or as 4095 calls of NextID in millisecond t
\* leave it: lastTime t, sequence SequenceMask - 1
SnowInit ==
    /\ dbMaxId = [t \in RegTags |-> InitMaxId]
    /\ dbStep = [t \in RegTags |-> MaxStep]
    /\ rowLock = [t \in RegTags |-> None]
    /\ segs = <<>>
    /\ bizTag = [b \in Bufs |-> "order-service"]
    /\ current = [b \in Bufs |-> 0]
    /\ next = [b \in Bufs |-> 0]
    /\ nextReady = [b \in Bufs |-> FALSE]
    /\ isLoading = [b \in Bufs |-> 0]
    /\ mu = [b \in Bufs |-> None]
    /\ bufOf = [p \in Procs |-> 1]
    /\ pc = [p \in Procs |-> "idle"]
    /\ loc = [p \in Procs |-> NoLoc]
    /\ res = [c \in Callers |-> "none"]
    /\ log = [b \in Bufs |-> <<>>]
    /\ failed = <<>>
    /\ NewLeafServer
    /\ NewGenerator
    /\ NoCodec
    /\ NoDriver
    /\ workerID = Port % 1024
    /\ sfmu = None
    /\ sfpc = [c \in Callers |-> "idle"]
    /\ sfnow = 0
    /\ sfcalls = 0
    /\ \/ /\ lastTime = -1
          /\ sequence = 0
          /\ lastId = -1
          /\ sfret = [kind |-> "none", id |-> 0, first |-> 0, last |-> -1,
                      via |-> "direct"]
       \/ \E t \in Clock :
             /\ lastTime = t
             /\ sequence = SequenceMask - 1
             /\ lastId = ComposeID(t, workerID, sequence)
             /\ sfret = [kind |-> "id", id |-> lastId, first |-> t,
                         last |-> t, via |-> "direct"]

SnowSpec == SnowInit /\ [][SnowNext]_vars

\* ---- the Snowflake service: Zookeeper registration and heartbeat ----

\* zkClient.Exists / Create / Set on a Zookeeper that answers: Create makes
\* the node unless it is there, Set with version -1 writes the node if it
\* is there and returns an error (which the heartbeat ignores) if not
ZkCreate(nodes, path, data) ==
    IF nodes[path].exists THEN nodes ELSE [nodes EXCEPT ![path] = data]
ZkSet(nodes, path, data) ==
    IF nodes[path].exists THEN [nodes EXCEPT ![path] = data] ELSE nodes

\* ensurePath
ensurePath(nodes, path) ==
    IF ~nodes[path].exists THEN ZkCreate(nodes, path, EmptyNode) ELSE nodes

\* driver := &SnowflakeDriver{lastTime: 0, sequence: 0}; driver.workerID = w;
\* go driver.scheduledUploadTime()
DriverUp(w) ==
    /\ drv' = "up"
    /\ lastTime' = -1
    /\ sequence' = 0
    /\ workerID' = w
    /\ sfmu' = None
    /\ sfpc' = [c \in Callers |-> "idle"]
    /\ sfnow' = 0
    /\ UNCHANGED <<lastId, sfcalls, sfret>>

\* NewSnowflakeDriver returns nil, err: main ends with log.Fatalf
DriverFails == UNCHANGED <<drv, snowVars>>

\* the record of a run of registerOrRecover
Booted(kind, now, against) ==
    [kind |-> kind, now |-> now, against |-> against, beat |-> hbeat]

\* registerOrRecover when the node exists: the worker id is read from the
\* node and the clock is compared with the node's LastTime; the node is
\* written back as it was read
Recover(now) ==
    /\ drv = "down"
    /\ zkNodes[RegisterKey].exists
    /\ LET info == zkNodes[RegisterKey]
           nodes == ensurePath(zkNodes, ServicePath) IN
        IF now < info.LastTime
        THEN /\ zkNodes' = nodes
             /\ boot' = Booted("err_rollback", now, info.LastTime)
             /\ DriverFails
             /\ UNCHANGED cacheFile
        ELSE /\ zkNodes' = ZkSet(nodes, RegisterKey, info)
             /\ cacheFile' = info
             /\ boot' = Booted("recovered", now, info.LastTime)
             /\ DriverUp(info.WorkerID)
    /\ UNCHANGED <<hbeat, leafVars, regVars, genVars, codecVars>>

\* registerOrRecover when the node does not exist: the worker id comes from
\* the cache file (whose LastTime the clock is compared with) or from the
\* port, and the node is created with LastTime = CreateTime = now
Register(checked, now) ==
    /\ drv = "down"
    /\ ~zkNodes[RegisterKey].exists
    /\ LET nodes == ensurePath(zkNodes, ServicePath)
           w == IF cacheFile.exists THEN cacheFile.WorkerID ELSE Port % 1024
           info == NodeInfo(w, now, now) IN
        IF cacheFile.exists /\ checked < cacheFile.LastTime
        THEN /\ zkNodes' = nodes
             /\ boot' = Booted("err_cache_rollback", checked, cacheFile.LastTime)
             /\ DriverFails
             /\ UNCHANGED cacheFile
        ELSE /\ zkNodes' = ZkCreate(nodes, RegisterKey, info)
             /\ cacheFile' = info
             /\ boot' = Booted("registered", now, now)
             /\ DriverUp(w)
    /\ UNCHANGED <<hbeat, leafVars, regVars, genVars, codecVars>>

\* one tick of scheduledUploadTime
Heartbeat(now) ==
    /\ drv = "up"
    /\ IF now < lastTime
       THEN UNCHANGED <<zkNodes, cacheFile, hbeat>>
       ELSE LET info == NodeInfo(workerID, now, 0) IN
            /\ zkNodes' = ZkSet(zkNodes, HeartbeatKey, info)
            /\ cacheFile' = info
            /\ hbeat' = [sent |-> TRUE, time |-> now]
    /\ UNCHANGED <<drv, boot, snowVars, leafVars, regVars, genVars, codecVars>>

\* the service process ends
Stop ==
    /\ drv = "up"
    /\ sfmu = None
    /\ drv' = "down"
    /\ UNCHANGED <<zkNodes, cacheFile, hbeat, boot, snowVars, leafVars,
                   regVars, genVars, codecVars>>

\* what a reading of the clock can give while the service is watched
Ticks == 0..MaxTick

\* the service is started, beats, serves NextID calls whose reading of the
\* clock is not behind lastTime, and ends
ZkNext ==
    \/ \E now \in Ticks : Recover(now)
    \/ \E checked, now \in Ticks : Register(checked, now)
    \/ \E now \in Ticks : Heartbeat(now)
    \/ Stop
    \/ \E c \in Callers : \E now \in Ticks :
          drv = "up" /\ SfNextID(c, now) /\ UNCHANGED <<codecVars, zkVars>>

\* no service started yet; the cache file of an earlier deployment may be
\* there
ZkInit ==
    /\ dbMaxId = [t \in RegTags |-> InitMaxId]
    /\ dbStep = [t \in RegTags |-> MaxStep]
    /\ rowLock = [t \in RegTags |-> None]
    /\ segs = <<>>
    /\ bizTag = [b \in Bufs |-> "order-service"]
    /\ current = [b \in Bufs |-> 0]
    /\ next = [b \in Bufs |-> 0]
    /\ nextReady = [b \in Bufs |-> FALSE]
    /\ isLoading = [b \in Bufs |-> 0]
    /\ mu = [b \in Bufs |-> None]
    /\ bufOf = [p \in Procs |-> 1]
    /\ pc = [p \in Procs |-> "idle"]
    /\ loc = [p \in Procs |-> NoLoc]
    /\ res = [c \in Callers |-> "none"]
    /\ log = [b \in Bufs |-> <<>>]
    /\ failed = <<>>
    /\ NewLeafServer
    /\ NewGenerator
    /\ NoCodec
    /\ NewSnowflakeDriver
    /\ zkNodes = [k \in ZkPaths |-> Absent]
    /\ cacheFile \in {Absent} \cup
                     {NodeInfo(Port % 1024, t, t) : t \in Ticks}
    /\ drv = "down"
    /\ hbeat = [sent |-> FALSE, time |-> 0]
    /\ boot = [kind |-> "none", now |-> 0, against |-> 0,
               beat |-> [sent |-> FALSE, time |-> 0]]

ZkSpec == ZkInit /\ [][ZkNext]_vars

\* ---- UUID text and binary forms (uuid.go, encoding) ----

\* a string is a sequence of one-character strings

UpperHex == <<"A", "B", "C", "D", "E", "F">>

\* base64.StdEncoding and base64.URLEncoding differ in the last two characters
Base64Common ==
    <<"A", "B", "C", "D", "E", "F", "G", "H", "I", "J", "K", "L", "M",
      "N", "O", "P", "Q", "R", "S", "T", "U", "V", "W", "X", "Y", "Z",
      "a", "b", "c", "d", "e", "f", "g", "h", "i", "j", "k", "l", "m",
      "n", "o", "p", "q", "r", "s", "t", "u", "v", "w", "x", "y", "z",
      "0", "1", "2", "3", "4", "5", "6", "7", "8", "9">>
EncodeStd == Base64Common \o <<"+", "/">>
EncodeURL == Base64Common \o <<"-", "_">>

\* the position of character c in table t, counted from 0; -1 if absent
IndexIn(t, c) ==
    IF \E i \in 1..Len(t) : t[i] = c
    THEN (CHOOSE i \in 1..Len(t) : t[i] = c) - 1
    ELSE -1

\* hex.Encode / hex.EncodeToString
HexEncode(b) ==
    [i \in 1..(2 * Len(b)) |->
        IF i % 2 = 1 THEN HexDigits[(b[(i + 1) \div 2] \div 16) + 1]
        ELSE HexDigits[(b[i \div 2] % 16) + 1]]

\* hex's fromHexChar: 0-9, a-f, A-F; -1 for any other character
FromHexChar(c) ==
    IF IndexIn(HexDigits, c) >= 0 THEN IndexIn(HexDigits, c)
    ELSE IF IndexIn(UpperHex, c) >= 0 THEN 10 + IndexIn(UpperHex, c)
    ELSE -1

\* hex.Decode: an error for an odd length or a character that is no digit
HexDecode(s) ==
    IF Len(s) % 2 = 1 \/ \E i \in 1..Len(s) : FromHexChar(s[i]) = -1
    THEN [err |-> TRUE, bytes |-> <<>>]
    ELSE [err |-> FALSE,
          bytes |-> [i \in 1..(Len(s) \div 2) |->
                        16 * FromHexChar(s[2 * i - 1]) + FromHexChar(s[2 * i])]]

\* encodeHex: 8-4-4-4-12 digits with hyphens
encodeHex(u) ==
    HexEncode(SubSeq(u, 1, 4)) \o <<"-">> \o HexEncode(SubSeq(u, 5, 6))
        \o <<"-">> \o HexEncode(SubSeq(u, 7, 8)) \o <<"-">>
        \o HexEncode(SubSeq(u, 9, 10)) \o <<"-">> \o HexEncode(SubSeq(u, 11, 16))

\* UUID.String
String(u) == encodeHex(u)

\* strings.TrimPrefix / strings.TrimSuffix
TrimPrefix(s, p) ==
    IF Len(s) >= Len(p) /\ SubSeq(s, 1, Len(p)) = p
    THEN SubSeq(s, Len(p) + 1, Len(s)) ELSE s
TrimSuffix(s, p) ==
    IF Len(s) >= Len(p) /\ SubSeq(s, Len(s) - Len(p) + 1, Len(s)) = p
    THEN SubSeq(s, 1, Len(s) - Len(p)) ELSE s

NilUUID == [i \in 1..16 |-> 0]

\* what a decoder returns
Decoded(u) == [uuid |-> u, err |-> "nil"]
Failed(e) == [uuid |-> NilUUID, err |-> e]

\* Parse
Parse(str) ==
    LET s == TrimSuffix(TrimPrefix(TrimPrefix(str,
                 <<"u", "r", "n", ":", "u", "u", "i", "d", ":">>), <<"{">>),
                 <<"}">>)
        seg(a, b) == HexDecode(SubSeq(s, a, b))
    IN  IF Len(s) = 36
        THEN IF s[9] # "-" \/ s[14] # "-" \/ s[19] # "-" \/ s[24] # "-"
             THEN Failed("ErrInvalidFormat")
             ELSE IF seg(1, 8).err \/ seg(10, 13).err \/ seg(15, 18).err
                        \/ seg(20, 23).err \/ seg(25, 36).err
             THEN Failed("ErrInvalidFormat")
             ELSE Decoded(seg(1, 8).bytes \o seg(10, 13).bytes
                            \o seg(15, 18).bytes \o seg(20, 23).bytes
                            \o seg(25, 36).bytes)
        ELSE IF Len(s) = 32
        THEN IF HexDecode(s).err THEN Failed("ErrInvalidFormat")
             ELSE Decoded(HexDecode(s).bytes)
        ELSE Failed("ErrInvalidFormat")

\* UUID.MarshalText and UUID.UnmarshalText
MarshalText(u) == encodeHex(u)
UnmarshalText(data) == Parse(data)

\* UUID.Bytes, UUID.MarshalBinary: the sixteen bytes as a slice
Bytes(u) == SubSeq(u, 1, 16)
MarshalBinary(u) == SubSeq(u, 1, 16)

\* FromBytes, UUID.UnmarshalBinary
FromBytes(b) ==
    IF Len(b) # 16 THEN Failed("ErrInvalidLength")
    ELSE Decoded([i \in 1..16 |-> b[i]])
UnmarshalBinary(data) ==
    IF Len(data) # 16 THEN Failed("ErrInvalidLength")
    ELSE Decoded([i \in 1..16 |-> data[i]])

\* UUID.EncodeToHex and DecodeFromHex
EncodeToHex(u) == HexEncode(u)
DecodeFromHex(s) ==
    IF Len(s) # 32 THEN Failed("ErrInvalidFormat")
    ELSE IF HexDecode(s).err THEN Failed("ErrInvalidFormat")
    ELSE Decoded(HexDecode(s).bytes)

\* the 6-bit groups of the bytes b, the last one filled with zero bits
Sextets(b) ==
    LET n == Len(b)
        at(i) == IF i <= n THEN b[i] ELSE 0
        group(g) == 3 * ((g - 1) \div 4)
        six(g) ==
            CASE (g - 1) % 4 = 0 -> at(group(g) + 1) \div 4
              [] (g - 1) % 4 = 1 ->
                    (at(group(g) + 1) % 4) * 16 + (at(group(g) + 2) \div 16)
              [] (g - 1) % 4 = 2 ->
                    (at(group(g) + 2) % 16) * 4 + (at(group(g) + 3) \div 64)
              [] OTHER -> at(group(g) + 3) % 64
    IN  [g \in 1..((n * 8 + 5) \div 6) |-> six(g)]

\* Encoding.EncodeToString: padded with "=" to a multiple of four, or raw
Base64Encode(b, table, padded) ==
    LET body == [g \in 1..Len(Sextets(b)) |-> table[Sextets(b)[g] + 1]]
        pad == (4 - (Len(body) % 4)) % 4
    IN  IF padded THEN body \o [i \in 1..pad |-> "="] ELSE body

\* Encoding.DecodeString: the padding must be there exactly when the
\* encoding is padded, every other character must be in the table, a single
\* trailing character is an error; the spare bits of the last character are
\* dropped
Base64Decode(s, table, padded) ==
    LET n == Len(s)
        pads == IF ~padded THEN 0
                ELSE IF n >= 2 /\ s[n] = "=" /\ s[n - 1] = "=" THEN 2
                ELSE IF n >= 1 /\ s[n] = "=" THEN 1 ELSE 0
        body == SubSeq(s, 1, n - pads)
        m == Len(body)
        bad == \/ \E i \in 1..m : IndexIn(table, body[i]) = -1
               \/ m % 4 = 1
               \/ padded /\ (m + pads) % 4 # 0
               \/ padded /\ m % 4 = 0 /\ pads # 0
        v(i) == IndexIn(table, body[i])
        group(k) == 4 * ((k - 1) \div 3)
        byte(k) ==
            CASE (k - 1) % 3 = 0 ->
                    v(group(k) + 1) * 4 + (v(group(k) + 2) \div 16)
              [] (k - 1) % 3 = 1 ->
                    (v(group(k) + 2) % 16) * 16 + (v(group(k) + 3) \div 4)
              [] OTHER -> (v(group(k) + 3) % 4) * 64 + v(group(k) + 4)
    IN  IF bad THEN [err |-> TRUE, bytes |-> <<>>]
        ELSE [err |-> FALSE, bytes |-> [k \in 1..((m * 6) \div 8) |-> byte(k)]]

\* UUID.EncodeToBase64 (base64.RawURLEncoding), UUID.EncodeToBase64Std
EncodeToBase64(u) == Base64Encode(u, EncodeURL, FALSE)
EncodeToBase64Std(u) == Base64Encode(u, EncodeStd, TRUE)

\* the decoder of the two base64 functions
DecodeBase64With(s, table, padded) ==
    LET d == Base64Decode(s, table, padded) IN
        IF d.err THEN Failed("ErrInvalidFormat")
        ELSE IF Len(d.bytes) # 16 THEN Failed("ErrInvalidLength")
        ELSE Decoded(d.bytes)

\* DecodeFromBase64 reading the standard alphabet
DecodeFromBase64StdTable(s) == DecodeBase64With(s, EncodeStd, FALSE)

\* DecodeFromBase64 (base64.RawURLEncoding)
DecodeFromBase64(s) == DecodeBase64With(s, EncodeURL, FALSE)

\* DecodeFromBase64Std (base64.StdEncoding)
DecodeFromBase64Std(s) == DecodeBase64With(s, EncodeStd, TRUE)

\* the byte values the UUIDs are made of
SampleBytes == {(51 * k) % 256 : k \in 0..MaxByteIdx}

\* the UUIDs: byte values a, b, c in turn, so that each takes every place of
\* a base64 group
SampleUUIDs ==
    {[i \in 1..16 |-> IF i % 3 = 1 THEN a ELSE IF i % 3 = 2 THEN b ELSE c] :
        a \in SampleBytes, b \in SampleBytes, c \in SampleBytes}

\* encode cu with enc and hand the result to dec
RoundTrip(op, enc, d) ==
    /\ cout' = [op |-> op, enc |-> enc, uuid |-> d.uuid, err |-> d.err]
    /\ UNCHANGED <<cu, leafVars, regVars, genVars, snowVars, zkVars>>

ParseString == RoundTrip("String", String(cu), Parse(String(cu)))
TextRoundTrip ==
    RoundTrip("MarshalText", MarshalText(cu), UnmarshalText(MarshalText(cu)))
BinaryRoundTrip ==
    RoundTrip("MarshalBinary", MarshalBinary(cu),
              UnmarshalBinary(MarshalBinary(cu)))
HexRoundTrip ==
    RoundTrip("EncodeToHex", EncodeToHex(cu), DecodeFromHex(EncodeToHex(cu)))
Base64RoundTrip ==
    RoundTrip("EncodeToBase64", EncodeToBase64(cu),
              DecodeFromBase64(EncodeToBase64(cu)))
Base64StdRoundTrip ==
    RoundTrip("EncodeToBase64Std", EncodeToBase64Std(cu),
              DecodeFromBase64Std(EncodeToBase64Std(cu)))
BytesRoundTrip == RoundTrip("Bytes", Bytes(cu), FromBytes(Bytes(cu)))

CodecNext ==
    \/ ParseString
    \/ TextRoundTrip
    \/ BinaryRoundTrip
    \/ HexRoundTrip
    \/ Base64RoundTrip
    \/ Base64StdRoundTrip
    \/ BytesRoundTrip

\* any of the UUIDs, nothing encoded yet
CodecInit ==
    /\ dbMaxId = [t \in RegTags |-> InitMaxId]
    /\ dbStep = [t \in RegTags |-> MaxStep]
    /\ rowLock = [t \in RegTags |-> None]
    /\ segs = <<>>
    /\ bizTag = [b \in Bufs |-> "order-service"]
    /\ current = [b \in Bufs |-> 0]
    /\ next = [b \in Bufs |-> 0]
    /\ nextReady = [b \in Bufs |-> FALSE]
    /\ isLoading = [b \in Bufs |-> 0]
    /\ mu = [b \in Bufs |-> None]
    /\ bufOf = [p \in Procs |-> 1]
    /\ pc = [p \in Procs |-> "idle"]
    /\ loc = [p \in Procs |-> NoLoc]
    /\ res = [c \in Callers |-> "none"]
    /\ log = [b \in Bufs |-> <<>>]
    /\ failed = <<>>
    /\ NewLeafServer
    /\ NewGenerator
    /\ NewSnowflakeDriver
    /\ NoDriver
    /\ cu \in SampleUUIDs
    /\ cout = [op |-> "none", enc |-> <<>>, uuid |-> NilUUID, err |-> "nil"]

CodecSpec == CodecInit /\ [][CodecNext]_vars

TypeOK ==
    /\ \A b \in Bufs : current[b] \in 0..Len(segs) /\ next[b] \in 0..Len(segs)
    /\ \A b \in Bufs : mu[b] \in Callers \cup {None}
    /\ Len(segs) <= MaxSegs

\* ---- history ----

\* the ids NextID has returned on buffer b
Entries(b) == 1..Len(log[b])

\* tasks between their compare-and-set of isLoading and their reset of it
InFlight(b) == {t \in Tasks : pc[t] # "idle" /\ bufOf[t] = b}

\* the callers of buffer b
CallersOf(b) == {c \in Callers : bufOf[c] = b}

\* C1: all ids returned by NextID on one DoubleBuffer are pairwise distinct.
C1_Uniqueness ==
    \A b \in Bufs : \A i, j \in Entries(b) :
        i # j => log[b][i].id # log[b][j].id

\* C2: an id returned before another NextID call on the same buffer began is
\* smaller than the id that call returns.
C2_Monotonic ==
    \A b \in Bufs : \A i, j \in Entries(b) :
        i <= log[b][j].start => log[b][i].id < log[b][j].id

\* C3: every id returned lies in (Base, Max] of the segment whose cursor
\* produced it.
C3_InRange ==
    \A b \in Bufs : \A i \in Entries(b) :
        /\ segs[log[b][i].seg].Base < log[b][i].id
        /\ log[b][i].id <= segs[log[b][i].seg].Max

\* C4: every replacement of current installs a segment whose lowest id
\* (Base + 1) is greater than the Max of the segment it replaces.
C4_TransitionsAscend ==
    [][\A b \in Bufs :
         (current[b] # 0 /\ current'[b] # current[b])
            => segs'[current'[b]].Base + 1 > segs[current[b]].Max]_vars

\* C5: the segments returned by FetchNextSegment for one tag, to whatever
\* buffer and from whatever call site, have pairwise disjoint id sets
\* Base+1..Max.
C5_DisjointRanges ==
    \A i, j \in 1..Len(segs) :
        i # j => (segs[i].Max <= segs[j].Base \/ segs[j].Max <= segs[i].Base)

\* two buffers have fetched, one of them twice
C5_Witness ==
    /\ Len(segs) = MaxSegs
    /\ \E i, j \in 1..Len(segs) : segs[i].owner # segs[j].owner

\* buffer b has one caller and is the only client of the store so far
SoleCaller(b) ==
    /\ Cardinality(CallersOf(b)) = 1
    /\ \A i \in 1..Len(segs) : segs[i].owner = b

\* C6: with one caller that is the only client of the store, the k-th NextID
\* call returns Base + k of the first segment, for k up to Step + 1.
C6_ExactExhaustion ==
    \A b \in Bufs :
        SoleCaller(b) =>
            \A k \in Entries(b) :
                k <= segs[1].Step + 1 => log[b][k].id = segs[1].Base + k

\* C7: at most one prefetch task per buffer is between its compare-and-set
\* of isLoading and its reset of isLoading.
C7_SingleFlight == \A b \in Bufs : Cardinality(InFlight(b)) <= 1

\* a caller reaches the compare-and-set while a task of its buffer is in flight
C7_Witness ==
    \E c \in Callers : pc[c] = "chk_cas" /\ InFlight(bufOf[c]) # {}

\* C8: while no store call has failed, at most one prefetch is started
\* during the lifetime of a current segment.
C8_OnePrefetchPerSegment ==
    failed = <<>> => \A i \in 1..Len(segs) : segs[i].pf <= 1

\* c is inside the synchronous fallback fetch, before its result is installed
InFallback(c) == loc[c].site = "fallback" /\ pc[c] # "install"

\* C9: from the start of a fallback fetch until its error is returned, no
\* step changes current, next or nextReady of the buffer; the return of the
\* error releases the mutex, returns no id and records the error.
C9_FailedFallbackKeepsState ==
    [][\A c \in Callers :
         InFallback(c) =>
            /\ current'[bufOf[c]] = current[bufOf[c]]
            /\ next'[bufOf[c]] = next[bufOf[c]]
            /\ nextReady'[bufOf[c]] = nextReady[bufOf[c]]
            /\ (pc[c] = "fetch_err" /\ pc'[c] = "idle")
                  => /\ res'[c] = "err_fallback"
                     /\ log'[bufOf[c]] = log[bufOf[c]]
                     /\ mu'[bufOf[c]] = None
                     /\ current'[bufOf[c]] # 0]_vars

\* a fallback fetch failed, and the caller's next call got an id from a
\* segment fetched afterwards
C9_Witness ==
    \E c \in Callers :
        /\ failed = <<"fallback">>
        /\ res[c] = "id"
        /\ pc[c] = "idle"
        /\ CallersOf(bufOf[c]) = {c}
        /\ current[bufOf[c]] = Len(segs)
        /\ Len(log[bufOf[c]]) > 0
        /\ log[bufOf[c]][Len(log[bufOf[c]])].seg = current[bufOf[c]]
        /\ next[bufOf[c]] = 0

\* a prefetch task is started only by the compare-and-set of a caller in
\* CheckAndLoadNext, for the caller's buffer
OnlyCasStartsPrefetch ==
    \A t \in Tasks :
        (pc[t] = "idle" /\ pc'[t] # "idle")
            => \E c \in Callers :
                   /\ pc[c] = "chk_cas" /\ pc'[c] = "idle"
                   /\ bufOf'[t] = bufOf[c]
                   /\ isLoading[bufOf[c]] = 0

\* isLoading is 1 exactly while a task of the buffer is in flight
LoadingTracksTask == \A b \in Bufs : isLoading[b] = 1 <=> InFlight(b) # {}

\* a failed prefetch surfaces in no NextID result: an error returned by
\* NextID is the error of a fallback fetch
ErrorsAreFallbackErrors ==
    \A c \in Callers :
        res[c] = "err_fallback" =>
            \E i \in 1..Len(failed) : failed[i] = "fallback"

\* a call whose fallback fetch succeeded returns an id
FallbackServes ==
    \A c \in Callers :
        (pc[c] = "switched_add" /\ pc'[c] # "switched_add")
            => /\ res'[c] = "id"
               /\ Len(log'[bufOf[c]]) = Len(log[bufOf[c]]) + 1

\* C10: isLoading is 1 only while a prefetch task is in flight, so it is 0
\* again after a failed prefetch; a call whose fallback fetch succeeds
\* returns an id and the only errors NextID returns are those of its own
\* fallback fetch; a prefetch is started by the compare-and-set of
\* CheckAndLoadNext only.
C10_DegradedPath ==
    [][/\ OnlyCasStartsPrefetch
       /\ FallbackServes
       /\ LoadingTracksTask'
       /\ ErrorsAreFallbackErrors']_vars

\* the first prefetch failed, the fallback fetch served the caller, and a
\* later prefetch has staged a segment
C10_Witness ==
    \E b \in Bufs :
        /\ failed = <<"prefetch">>
        /\ nextReady[b] /\ next[b] # 0
        /\ current[b] # 0 /\ current[b] < next[b]
        /\ \E i \in Entries(b) : log[b][i].seg = current[b]
        /\ \E i \in Entries(b) : log[b][i].seg < current[b]
        /\ isLoading[b] = 0

\* ---- the registry (RegSpec) ----

\* c is inside the buf.NextID() call of GetID
InNextID(c) == gpc[c] \in {"nextid", "nextid_locked"}

\* an entry of the map is never replaced or removed
EntriesKept == \A t \in RegTags : buffers[t] # 0 => buffers'[t] = buffers[t]

\* the buffer whose NextID serves a GetID call is the one the map holds for
\* the call's tag, and it was constructed for that tag
ServedByMapped ==
    \A c \in Callers :
        InNextID(c) => /\ buffers[gtag[c]] # 0
                       /\ bufOf[c] = buffers[gtag[c]]
                       /\ bizTag[bufOf[c]] = gtag[c]

\* no DoubleBuffer is the entry of two tags
OneTagPerBuffer ==
    \A t, u \in RegTags : (buffers[t] # 0 /\ buffers[t] = buffers[u]) => t = u

\* C11: at most one DoubleBuffer exists in the registry per tag: an entry of
\* the map is never replaced or removed, and every GetID call is served by
\* the buffer the map holds for its tag, whatever the interleaving of the
\* first calls.
C11_OneBufferPerTag ==
    [][EntriesKept /\ ServedByMapped' /\ OneTagPerBuffer']_vars

\* two first calls for one tag both missed under the read lock; one created
\* the buffer and returned, the other found it in the double check
C11_Witness ==
    \E c, d \in Callers :
        /\ c # d
        /\ gets[c] = 1 /\ gets[d] = 1
        /\ gtag[c] = gtag[d]
        /\ gpc[d] = "idle" /\ res[d] = "id"
        /\ gpc[c] = "nextid_locked"
        /\ bufOf[c] = bufOf[d]
        /\ Len(log[bufOf[c]]) = 1

\* GetID returns the error of a failed Init: the map is unchanged, no id is
\* returned and the write lock is released
FailedInitKeepsMap ==
    \A c \in Callers :
        (gpc[c] = "in_init" /\ pc[c] = "init_err" /\ gpc'[c] = "idle")
            => /\ buffers' = buffers
               /\ res'[c] = "err_init"
               /\ log' = log
               /\ smu'.w = None

\* a GetID that finds no entry under the write lock constructs a buffer that
\* has no segment and calls Init on it
RetriesFromScratch ==
    \A c \in Callers :
        (gpc[c] = "recheck" /\ buffers[gtag[c]] = 0 /\ gpc'[c] # "recheck")
            => /\ gpc'[c] = "init"
               /\ current'[bufOf'[c]] = 0
               /\ next'[bufOf'[c]] = 0
               /\ bizTag'[bufOf'[c]] = gtag[c]

\* once the store answers, the buffer is inserted with its first segment
InsertedAfterInit ==
    \A c \in Callers :
        (gpc[c] = "insert" /\ gpc'[c] # "insert")
            => /\ buffers'[gtag[c]] = bufOf[c]
               /\ current[bufOf[c]] # 0
               /\ segs[current[bufOf[c]]].owner = bufOf[c]

\* no GetID call finds a buffer without a segment in the map
NeverPoisoned ==
    \A t \in RegTags : buffers[t] # 0 => current[buffers[t]] # 0

\* C12: if Init of the new buffer fails inside GetID, GetID returns the
\* error and the map is unchanged; a later GetID for the tag constructs a new
\* buffer, calls Init again and inserts the buffer once the store answers.
C12_FailedInitNotInserted ==
    [][/\ FailedInitKeepsMap
       /\ RetriesFromScratch
       /\ InsertedAfterInit
       /\ NeverPoisoned']_vars

\* the first call for a tag failed in Init; the next call for the same tag
\* created the buffer with one fetch and returned an id
C12_Witness ==
    \E c, d \in Callers :
        /\ c # d
        /\ gets[c] = 1 /\ gets[d] = 1
        /\ gtag[c] = gtag[d]
        /\ gpc[c] = "idle" /\ res[c] = "err_init"
        /\ gpc[d] = "idle" /\ res[d] = "id"
        /\ failed = <<"init">>
        /\ buffers[gtag[d]] = bufOf[d]
        /\ Len(segs) = 1

\* ---- the prefetch ----

\* the step in which the fetch of prefetch task t fails
PrefetchFails(t) ==
    /\ loc[t].site = "prefetch"
    /\ pc'[t] # pc[t]
    /\ Len(failed') = Len(failed) + 1

\* the failed fetch changes no field of any buffer, no segment and no
\* caller's result, and leads to the deferred reset
FailureContained ==
    \A t \in Tasks :
        PrefetchFails(t) =>
            /\ pc'[t] = "t_reset"
            /\ UNCHANGED <<bufVars, segs, res, log>>

\* the deferred reset changes isLoading of the task's buffer, to 0, and
\* nothing else of any buffer
ResetOnly ==
    \A t \in Tasks :
        (pc[t] = "t_reset" /\ pc'[t] # "t_reset")
            => /\ isLoading' = [isLoading EXCEPT ![bufOf[t]] = 0]
               /\ UNCHANGED <<current, next, nextReady, mu, segs, res, log>>

\* while the only store errors are those of prefetches, no NextID call has
\* returned a store error
NoErrorFromPrefetch ==
    (\A i \in 1..Len(failed) : failed[i] = "prefetch")
        => \A c \in Callers : res[c] \notin {"err_fallback", "err_init"}

\* C13: a failed background prefetch is silent: the failure and the reset
\* that follows change no buffer field but isLoading, which becomes 0, and
\* no NextID call returns an error because of it.
C13_SilentPrefetchFailure ==
    [][FailureContained /\ ResetOnly /\ NoErrorFromPrefetch']_vars

\* a prefetch has failed and reset isLoading; nothing is staged and the
\* segment it was started for is still current
C13_Witness ==
    \E b \in Bufs :
        /\ failed = <<"prefetch">>
        /\ \A t \in Tasks : pc[t] = "idle"
        /\ isLoading[b] = 0
        /\ current[b] # 0 /\ segs[current[b]].pf = 1
        /\ next[b] = 0 /\ ~nextReady[b]
        /\ \E c \in CallersOf(b) : res[c] = "id"

\* the compare-and-set of CheckAndLoadNext starts a prefetch for buffer b
PrefetchStarts(b) == isLoading[b] = 0 /\ isLoading'[b] = 1

\* C14: no prefetch is started while Remaining() of the current segment is
\* greater than its threshold int64(float64(Step) * 0.2).
C14_ThresholdAccuracy ==
    [][\A b \in Bufs : PrefetchStarts(b) => RunningLow(current[b])]_vars

\* c waits at s.mu.RLock() for a tag that has a buffer, while d holds the
\* write lock for another tag
WaitsBehind(c, d) ==
    /\ gpc[c] = "rlock"
    /\ buffers[gtag[c]] # 0
    /\ smu.w = d
    /\ gtag[d] # gtag[c]

\* C15: a GetID call for a tag that already has a buffer is never made to
\* wait for the creation of another tag's buffer (the store round trip of
\* Init) or for the NextID call of another tag's first request.
C15_HotPathNeverWaits ==
    \A c, d \in Callers :
        WaitsBehind(c, d) =>
            gpc[d] \notin {"init", "in_init", "insert", "nextid_locked"}

\* the first increment of c's NextID call yielded an id within the segment it
\* incremented
FirstAddInRange(c) ==
    pc[c] = "fast_check" /\ loc[c].id <= segs[loc[c].src].Max

\* C16: a NextID call whose first atomic increment yields a value <= the Max
\* of the segment it incremented does not go on to db.mu.Lock(): it takes the
\* fast path, whose steps wait for nothing.
C16_FastPathNeverBlocks ==
    [][\A c \in Callers : FirstAddInRange(c) => pc'[c] # "lock"]_vars

\* ---- the Generator (GenSpec) ----

\* the calls of NewWithTime that returned without error
Returned == {i \in 1..Len(hist) : ~hist[i].err}

\* calls i..j all returned without error and were given the same timestamp
SameTimeRun(i, j) ==
    /\ i < j
    /\ \A k \in i..j : k \in Returned /\ hist[k].t = hist[i].t

\* C17: UUIDs returned by successive NewWithTime calls given the same
\* timestamp are pairwise distinct and strictly increasing under Compare.
C17_SameTimestampMonotonic ==
    \A i, j \in 1..Len(hist) :
        SameTimeRun(i, j) =>
            /\ hist[i].uuid # hist[j].uuid
            /\ Compare(hist[i].uuid, hist[j].uuid) = -1

\* C18: a call given a time earlier than that of a previous call returns a
\* UUID strictly greater under Compare than every UUID returned before.
C18_RollbackKeepsOrder ==
    \A j \in Returned :
        (\E k \in 1..(j - 1) : hist[k].t > hist[j].t)
            => \A i \in Returned :
                   i < j => Compare(hist[i].uuid, hist[j].uuid) = -1

\* C19: every UUID returned without error has Version() = 7 and Variant() =
\* RFC 4122, and the clockSeq encoded next to the version nibble never
\* exceeds 0xFFF.
C19_VersionAndVariant ==
    /\ clockSeq <= MaxClockSeq
    /\ \A i \in Returned :
          /\ Version(hist[i].uuid) = VersionTimeSorted
          /\ Variant(hist[i].uuid) = VariantRFC4122

\* the call made clockSeq pass 0xFFF
Overflowed(i) == hist[i].t <= hist[i].last /\ hist[i].seq = MaxClockSeq

\* a UUID was returned by a call that made clockSeq pass 0xFFF, and one by a
\* call whose random byte 8 had both top bits set
C19_Witness ==
    /\ \E i \in Returned : Overflowed(i)
    /\ \E i \in Returned : hist[i].uuid[10] = 255

SfReturns == sfmu' = None /\ (sfmu # None \/ sfcalls' # sfcalls)

\* a step in which NextID returns an id
SfIssues == SfReturns /\ sfret'.kind = "id"

\* C21: the ids one SnowflakeDriver returns are strictly increasing, whatever
\* the clock reads and whichever goroutine calls; and the id that follows the
\* 4096th id of a millisecond has sequence 0 and a strictly later millisecond.
C21_StrictlyIncreasing ==
    [][SfIssues =>
          /\ sfret'.id > lastId
          /\ (lastId # -1 /\ SeqOf(lastId) = SequenceMask) =>
                (SeqOf(sfret'.id) = 0 /\ TimeOf(sfret'.id) > TimeOf(lastId))]_vars

\* an id issued by the spin that follows the 4096th id of a millisecond
C21_Witness ==
    /\ sfret.kind = "id"
    /\ sfret.via = "spin"
    /\ sequence = 0
    /\ lastTime > sfret.last

\* C22: a call that reads the clock more than 5 ms before lastTime returns an
\* error; a call that returns an error leaves lastTime and sequence as they
\* were and issues nothing; a call that reads the clock at most 5 ms before
\* lastTime waits and then returns an id whose time is at least lastTime, or
\* an error; no id carries a time earlier than the lastTime the call found.
C22_RollbackGuard ==
    [][SfReturns =>
          /\ (lastTime - sfret'.first > MaxBackwards) => sfret'.kind = "err_far"
          /\ sfret'.kind # "id" =>
                (UNCHANGED <<lastTime, sequence, lastId>> /\ sfret'.id = 0)
          /\ (sfret'.first < lastTime
                /\ lastTime - sfret'.first <= MaxBackwards) =>
                /\ sfret'.via # "direct"
                /\ \/ sfret'.kind = "id" /\ TimeOf(sfret'.id) >= lastTime
                   \/ sfret'.kind = "err_behind"
          /\ sfret'.kind = "id" =>
                (TimeOf(sfret'.id) >= lastTime /\ lastTime' >= lastTime)]_vars

\* a call that slept over a small rollback and then issued an id
C22_Witness ==
    /\ sfret.kind = "id"
    /\ sfret.via = "slept"
    /\ sfret.first < sfret.last
    /\ sfret.last - sfret.first <= MaxBackwards
    /\ lastTime >= sfret.last

\* ---- round trips ----

\* C23: decoding what an encoder made of a UUID gives that UUID back, without
\* error: Parse(String), UnmarshalText(MarshalText),
\* UnmarshalBinary(MarshalBinary), DecodeFromHex(EncodeToHex),
\* DecodeFromBase64(EncodeToBase64), DecodeFromBase64Std(EncodeToBase64Std)
\* and FromBytes(Bytes).
C23_RoundTrips ==
    cout.op # "none" => (cout.err = "nil" /\ cout.uuid = cu)

\* a UUID with non-zero bytes went through base64 and came back
C23_Witness ==
    /\ cout.op = "EncodeToBase64"
    /\ Len(cout.enc) = 22
    /\ \E i \in 1..22 : cout.enc[i] = "_"
    /\ cu # NilUUID
    /\ cout.uuid = cu

\* ---- the current segment ----

\* C24: the cursor of the segment held as current lies between its base and
\* its max in every reachable state.
C24_CursorInRange ==
    \A b \in Bufs :
        current[b] # 0 =>
            /\ segs[current[b]].Base <= segs[current[b]].Cursor
            /\ segs[current[b]].Cursor <= segs[current[b]].Max

\* ---- the prefetch task ----

\* the task that staged its segment resets isLoading afterwards, and not
\* before
ResetAfterStage ==
    \A t \in Tasks :
        /\ (pc[t] = "t_stage" /\ pc'[t] # "t_stage") =>
              /\ pc'[t] = "t_reset"
              /\ next'[bufOf[t]] = loc[t].seg
              /\ nextReady'[bufOf[t]]
              /\ isLoading'[bufOf[t]] = 1
        /\ (pc[t] \in {"tx_update", "tx_select", "tx_commit"}) =>
              isLoading'[bufOf[t]] = 1

\* C25: once CheckAndLoadNext has set isLoading to 1 it is reset to 0 in the
\* end, whether the fetch succeeds or fails, given that the store call
\* returns and the mutex is granted; after a successful fetch the reset comes
\* only after next and nextReady are written.
C25_LoadingIsReset ==
    /\ \A b \in Bufs : (isLoading[b] = 1) ~> (isLoading[b] = 0)
    /\ [][ResetAfterStage]_vars

\* a prefetch has staged its segment and reset the flag
C25_Witness ==
    \E b \in Bufs :
        /\ isLoading[b] = 0
        /\ nextReady[b]
        /\ next[b] # 0
        /\ \A t \in Tasks : pc[t] = "idle"

\* ---- the staged segment ----

\* nextReady is true exactly when next holds a segment
ReadyIffStaged(b) == nextReady'[b] <=> next'[b] # 0

\* a prefetch is started only while nextReady is false
NoPrefetchWhileReady(b) ==
    (isLoading[b] = 0 /\ isLoading'[b] = 1) => ~nextReady[b]

\* a staged segment leaves next only by becoming current
StagedOnlyPromoted(b) ==
    (next[b] # 0 /\ next'[b] # next[b]) => current'[b] = next[b]

\* C26: nextReady is true exactly when next holds a segment; no prefetch is
\* started while nextReady is true; a staged segment leaves the buffer only by
\* being promoted to current, never overwritten by another prefetch result
\* and never discarded unused.
C26_StagedSegmentKept ==
    [][\A b \in Bufs :
          /\ ReadyIffStaged(b)
          /\ NoPrefetchWhileReady(b)
          /\ StagedOnlyPromoted(b)]_vars

\* ---- the switch of current ----

\* the goroutine that replaces current of b holds the mutex of b and is past
\* the double check, which it failed
ReplacedUnderMutex(b) ==
    (current[b] # 0 /\ current'[b] # current[b]) =>
        \E c \in Callers :
            /\ bufOf[c] = b
            /\ mu[b] = c
            /\ pc[c] \in {"promote", "install"}

\* the segment that is replaced has handed out all its ids: its cursor,
\* which the increment under the mutex raised last, is past Max
ReplacedWhenExhausted(b) ==
    (current[b] # 0 /\ current'[b] # current[b]) =>
        segs[current[b]].Cursor > segs[current[b]].Max

\* a goroutine that takes the mutex and finds capacity in the current
\* segment returns the next id of that segment and switches nothing
LateComerServed(c) ==
    LET b == bufOf[c]
        s == current[b] IN
        (pc[c] = "recheck" /\ pc'[c] # "recheck"
            /\ segs[s].Cursor < segs[s].Max) =>
            /\ pc'[c] = "idle"
            /\ res'[c] = "id"
            /\ log'[b] = Append(log[b], [id |-> segs[s].Cursor + 1, seg |-> s,
                                         start |-> loc[c].start])
            /\ current'[b] = s
            /\ mu'[b] = None

\* C27: current is replaced only by the goroutine that holds the buffer's
\* mutex and whose increment under the mutex passed current.Max; a segment
\* whose cursor has not reached Max is never replaced; a goroutine that
\* overshot the old segment and takes the mutex after the switch gets its id
\* from the new segment when that has capacity, and switches nothing.
C27_SwitchOnlyWhenExhausted ==
    [][/\ \A b \in Bufs : ReplacedUnderMutex(b) /\ ReplacedWhenExhausted(b)
       /\ \A c \in Callers : LateComerServed(c)]_vars

\* a goroutine that overshot a segment holds the mutex after another one
\* replaced that segment, and has just been given an id of the new one
C27_Witness ==
    \E c \in Callers : \E d \in Callers :
        /\ c # d
        /\ bufOf[c] = bufOf[d]
        /\ pc[d] = "lock"
        /\ loc[d].src # 0
        /\ loc[d].src # current[bufOf[d]]
        /\ loc[d].id > segs[loc[d].src].Max
        /\ Len(log[bufOf[c]]) > 0
        /\ log[bufOf[c]][Len(log[bufOf[c]])].seg = current[bufOf[c]]
        /\ segs[current[bufOf[d]]].Cursor < segs[current[bufOf[d]]].Max

\* ---- promotion ----

\* the slow path that finds current exhausted and a segment staged goes on to
\* promote it
ChoosesPromotion(c) ==
    LET b == bufOf[c]
        s == current[b] IN
        (pc[c] = "recheck" /\ pc'[c] # "recheck" /\ segs[s].Cursor >= segs[s].Max
            /\ nextReady[b] /\ next[b] # 0) =>
            pc'[c] = "promote"

\* the promotion: current becomes the staged segment, next and nextReady are
\* cleared, the store is left alone
Promotes(c) ==
    LET b == bufOf[c] IN
        (pc[c] = "promote" /\ pc'[c] # "promote") =>
            /\ pc'[c] = "switched_add"
            /\ next[b] # 0
            /\ current'[b] = next[b]
            /\ next'[b] = 0
            /\ ~nextReady'[b]
            /\ UNCHANGED <<storeVars, segs, failed>>

\* the return after the switch: the id is the promoted segment's cursor after
\* one more increment, and the store is left alone
ReturnsFromPromoted(c) ==
    LET b == bufOf[c]
        s == current[b] IN
        (pc[c] = "switched_add" /\ pc'[c] # "switched_add") =>
            /\ pc'[c] = "idle"
            /\ res'[c] = "id"
            /\ segs'[s].Cursor = segs[s].Cursor + 1
            /\ log'[b] = Append(log[b], [id |-> segs'[s].Cursor, seg |-> s,
                                         start |-> loc[c].start])
            /\ current'[b] = s
            /\ UNCHANGED <<storeVars, failed>>
            /\ Len(segs') = Len(segs)

\* C28: the slow path that finds current exhausted, nextReady true and next
\* populated makes the staged segment current, clears next and nextReady,
\* makes no store call and returns an id taken from the promoted segment's
\* cursor.
C28_Promotion ==
    [][\A c \in Callers :
          ChoosesPromotion(c) /\ Promotes(c) /\ ReturnsFromPromoted(c)]_vars

\* a goroutine has promoted the staged segment and is about to take its id:
\* the store has given out two segments, the second one to a prefetch that
\* has finished, and that one is current
C28_Witness ==
    \E c \in Callers :
        /\ pc[c] = "switched_add"
        /\ mu[bufOf[c]] = c
        /\ segs[current[bufOf[c]]].pf = 0
        /\ next[bufOf[c]] = 0
        /\ ~nextReady[bufOf[c]]
        /\ \E i \in 1..Len(segs) : segs[i].pf > 0
        /\ \A t \in Tasks : pc[t] = "idle"
        /\ failed = <<>>
        /\ Len(segs) = 2
        /\ current[bufOf[c]] = 2

\* ---- GetID's slow path ----

\* C29: the registry's write lock is never held while a NextID call made by
\* GetID executes: after a successful Init the buffer is inserted and the
\* lock released before buffer.NextID() is invoked.
C29_UnlockedBeforeNextID ==
    \A c \in Callers :
        gpc[c] \in {"nextid", "nextid_locked"} => smu.w # c

\* ---- errors of the synchronous paths ----

\* C30: the error GetID hands to its caller after a failed Init, and the
\* error NextID returns after a failed fallback fetch, is exactly the error
\* value FetchNextSegment returned.
C30_ErrorsUnchanged ==
    \A c \in Callers : gerr[c].store # <<>> => gerr[c].ret = gerr[c].store

\* ---- the buffer mutex ----

\* the positions of NextID between db.mu.Lock() and the deferred Unlock
SlowPath == {"recheck", "promote", "install", "switched_add", "fetch_err"}

\* goroutine p is between db.mu.Lock() and db.mu.Unlock() of buffer b
InMutex(p, b) ==
    /\ bufOf[p] = b
    /\ \/ pc[p] \in SlowPath
       \/ pc[p] \in {"tx_update", "tx_select", "tx_commit"}
            /\ loc[p].site = "fallback"

\* the goroutines that take a step
Acting == {p \in Procs : pc'[p] # pc[p] \/ loc'[p] # loc[p]}

\* a step of a task that locks, writes next and nextReady, and unlocks
StagesUnderMutex(b) ==
    \E t \in Tasks :
        /\ bufOf[t] = b
        /\ pc[t] = "t_stage"
        /\ pc'[t] = "t_reset"
        /\ mu[b] = None
        /\ mu'[b] = None

\* a step of the caller that holds the mutex
HolderActs(b) == \E c \in Callers : mu[b] = c /\ InMutex(c, b) /\ c \in Acting

\* current (once set), next and nextReady change only in a step of the
\* goroutine that holds the mutex
WritesUnderMutex(b) ==
    (\/ current[b] # 0 /\ current'[b] # current[b]
     \/ next'[b] # next[b]
     \/ nextReady'[b] # nextReady[b]) => (HolderActs(b) \/ StagesUnderMutex(b))

\* next is read by the double check (line 103) and by the switch (line 105):
\* the goroutine at either line holds the mutex
ReadsNextUnderMutex ==
    \A c \in Callers : pc[c] \in {"recheck", "promote"} => mu[bufOf[c]] = c

\* a step in which no holder of the mutex of b acts changes, of the buffer
\* and its segments, only one cursor (by one atomic add) or isLoading (by
\* the compare-and-set or the store)
OutsideOnlyAtomics(b) ==
    (~HolderActs(b) /\ ~StagesUnderMutex(b) /\ current[b] # 0) =>
        /\ current'[b] = current[b]
        /\ next'[b] = next[b]
        /\ nextReady'[b] = nextReady[b]
        /\ \A i \in 1..Len(segs) :
              /\ segs'[i].Base = segs[i].Base
              /\ segs'[i].Max = segs[i].Max
              /\ segs'[i].Step = segs[i].Step
              /\ segs'[i].Cursor \in {segs[i].Cursor, segs[i].Cursor + 1}
        /\ isLoading'[b] # isLoading[b] =>
              \/ isLoading[b] = 0 /\ \E c \in Callers : pc[c] = "chk_cas"
              \/ isLoading'[b] = 0 /\ \E t \in Tasks : pc[t] = "t_reset"

\* C31: once a DoubleBuffer is in use, current, next and nextReady are
\* written, and next is read, only by the goroutine that holds the buffer
\* mutex; outside the mutex only a cursor and the isLoading flag change,
\* each by one atomic operation.
C31_MutexDiscipline ==
    [][/\ ReadsNextUnderMutex
       /\ \A b \in Bufs : WritesUnderMutex(b) /\ OutsideOnlyAtomics(b)]_vars

\* a task with its segment fetched waits for the mutex a caller holds while
\* that caller installs the segment of its fallback fetch
C31_Witness ==
    \E c \in Callers : \E t \in Tasks :
        /\ bufOf[t] = bufOf[c]
        /\ pc[t] = "t_stage"
        /\ pc[c] = "install"
        /\ mu[bufOf[c]] = c

\* ---- termination ----

\* the buffer mutex is held only by a caller inside the slow path of NextID
\* on that buffer: a caller that has returned holds no mutex
ReleasedOnExit ==
    \A b \in Bufs : mu[b] # None => InMutex(mu[b], b)

\* the registry lock is held only by a caller inside GetID
RegistryReleasedOnExit ==
    /\ smu.w # None => gpc[smu.w] # "idle"
    /\ \A c \in smu.r : gpc[c] = "lookup"

\* C32: the buffer mutex is released on every exit path of NextID's slow
\* path, and under fair scheduling, with locks that are granted and a store
\* that answers, every GetID call (and the NextID call inside it) returns.
C32_EveryCallReturns ==
    /\ [](ReleasedOnExit /\ RegistryReleasedOnExit)
    /\ \A c \in Callers : (gpc[c] # "idle") ~> (gpc[c] = "idle" /\ pc[c] = "idle")

\* both callers have returned from their last call, one of them with the
\* error of a fallback fetch made under the mutex, and every lock is free
C32_Witness ==
    /\ \A c \in Callers : gets[c] = MaxGets /\ gpc[c] = "idle"
    /\ \E c \in Callers : res[c] = "err_fallback"
    /\ \A b \in Bufs : mu[b] = None
    /\ smu.w = None

\* ---- the store ----

\* the committed max_id of a tag: the row as it is, less the UPDATE of the
\* transaction that holds the row and has not committed
Persisted(tag) ==
    IF rowLock[tag] # None THEN dbMaxId[tag] - dbStep[tag] ELSE dbMaxId[tag]

\* the transaction of p commits in this step: FetchNextSegment succeeds
Commits(p) == pc[p] = "tx_commit" /\ Len(segs') = Len(segs) + 1

\* a successful FetchNextSegment moves max_id up by step and returns the
\* segment (old max_id, new max_id]
ReservesStep(p) ==
    LET tag == bizTag[bufOf[p]]
        seg == segs'[Len(segs')] IN
        Commits(p) =>
            /\ Persisted(tag)' = Persisted(tag) + dbStep[tag]
            /\ seg.Max = Persisted(tag)'
            /\ seg.Base = Persisted(tag)
            /\ seg.Step = dbStep[tag]
            /\ seg.Cursor = seg.Base
            /\ loc'[p].seg = Len(segs')

\* the committed max_id changes in no other step: not when FetchNextSegment
\* returns an error, not while a transaction is under way
OnlyCommitMoves ==
    \A tag \in DOMAIN dbMaxId :
        Persisted(tag)' # Persisted(tag) =>
            \E p \in Procs : Commits(p) /\ bizTag[bufOf[p]] = tag

\* C33: each successful FetchNextSegment(tag) raises the persisted max_id of
\* the tag by exactly its step and returns a segment with max the new
\* max_id, base the old one, the persisted step and cursor = base; a call
\* that returns an error leaves the persisted max_id as it was.
C33_StoreReservation ==
    [][OnlyCommitMoves /\ \A p \in Procs : ReservesStep(p)]_vars

\* a segment has been reserved, and a later transaction has failed after its
\* UPDATE and been rolled back
C33_Witness ==
    /\ Len(segs) >= 1
    /\ \E p \in Procs : loc[p].err \in {<<"scan failed">>, <<"commit failed">>}
    /\ \A tag \in DOMAIN dbMaxId :
          /\ rowLock[tag] = None
          /\ dbMaxId[tag] = InitMaxId + dbStep[tag] * Len(segs)

\* ---- the buffer without a segment ----

\* Init returns its error in this step
InitFails(c) == pc[c] = "init_err" /\ pc'[c] = "idle"

\* a failed Init leaves the buffer as NewDoubleBuffer made it
FailedInitLeavesUnset(c) ==
    InitFails(c) =>
        /\ current'[bufOf[c]] = 0
        /\ next'[bufOf[c]] = 0
        /\ ~nextReady'[bufOf[c]]
        /\ res'[c] = "err_init"

\* current is set for the first time by an Init that succeeded, by nothing
\* else
SetOnlyByInit(b) ==
    (current[b] = 0 /\ current'[b] # 0) =>
        \E c \in Callers : bufOf[c] = b /\ pc[c] = "init_ok"

\* what a caller at rest can do on a buffer without segment: begin Init, or
\* call NextID, which returns the error at once, touches neither the store
\* nor the buffer nor a segment and returns no id
UnsetBufferRefuses(c) ==
    (pc[c] = "idle" /\ current[bufOf[c]] = 0 /\ current'[bufOf[c]] = 0) =>
        \/ pc'[c] = "tx_update" /\ loc'[c].site = "init"
        \/ /\ pc'[c] = "idle"
           /\ loc'[c] = loc[c]
           /\ res'[c] \in {res[c], "err_not_init"}
           /\ res'[c] # res[c] =>
                 UNCHANGED <<storeVars, segs, bufVars, log, failed, pc, loc>>

\* no id is returned on a buffer without segment
NoIdWhileUnset(b) == (current[b] = 0 /\ current'[b] = 0) => log'[b] = log[b]

\* C34: a DoubleBuffer whose Init failed or was never called stays without
\* current segment, and every NextID call on it returns an error: no id, no
\* store call, no change of the buffer.
C34_UnusableUntilInit ==
    [][/\ \A c \in Callers : FailedInitLeavesUnset(c) /\ UnsetBufferRefuses(c)
       /\ \A b \in Bufs : SetOnlyByInit(b) /\ NoIdWhileUnset(b)]_vars

\* Init has failed, no segment was ever fetched, and a NextID call has
\* returned the error
C34_Witness ==
    /\ failed = <<"init">>
    /\ segs = <<>>
    /\ \A b \in Bufs : current[b] = 0
    /\ \A p \in Procs : pc[p] = "idle"
    /\ \E c \in Callers : res[c] = "err_not_init"
    /\ \A tag \in DOMAIN dbMaxId : dbMaxId[tag] = InitMaxId

\* ---- the registry map ----

\* the entry of tag t changes in this step
EntryChanges(t) == buffers'[t] # buffers[t]

\* the step is the insertion GetID(t) makes after its Init succeeded: the
\* caller holds the write lock, the tag had no buffer, the buffer put in is
\* the one the caller made and initialised
FirstInsert(t) ==
    \E c \in Callers :
        /\ gpc[c] = "insert"
        /\ gtag[c] = t
        /\ smu.w = c
        /\ buffers[t] = 0
        /\ buffers'[t] = bufOf[c]
        /\ bizTag[bufOf[c]] = t
        /\ current[bufOf[c]] # 0

\* C35: GetID(tag) changes the tag-to-buffer map only by inserting the entry
\* of that tag after the first successful Init; the entry of a tag that has
\* a buffer is never replaced or removed, and no step changes the entry of
\* a tag other than the one GetID was called with.
C35_RegistryFrame ==
    [][\A t \in RegTags :
          EntryChanges(t) =>
              /\ FirstInsert(t)
              /\ \A u \in RegTags \ {t} : ~EntryChanges(u)]_vars

\* both tags have their buffer, and every caller has come back from its
\* last call, so that tags with a buffer were asked for again
C35_Witness ==
    /\ \A t \in RegTags : buffers[t] # 0
    /\ \A t, u \in RegTags : t # u => buffers[t] # buffers[u]
    /\ \A c \in Callers : gets[c] = MaxGets /\ gpc[c] = "idle" /\ res[c] = "id"

\* ---- the clock sequence at its end ----

\* a call of NewWithTime got past the monotonicity block in this step
Advanced == Len(hist') = Len(hist) + 1 /\ hist'[Len(hist')].uuid # NilUUID

\* the call that finds timestamp <= lastTimestamp and clockSeq = 0xFFF sets
\* clockSeq to 0, moves lastTimestamp on by 1 and encodes that timestamp
OverflowAdvances ==
    LET call == hist'[Len(hist')] IN
        (Advanced /\ LeUint64(call.t, lastTimestamp)
                  /\ clockSeq = MaxClockSeq) =>
            /\ clockSeq' = 0
            /\ lastTimestamp' = lastTimestamp + 1
            /\ Timestamp(call.uuid) = lastTimestamp'
            /\ call.uuid[7] % 16 = 0
            /\ call.uuid[8] = 0

\* lastTimestamp, a uint64, does not go down
NeverDecreases == LeUint64(lastTimestamp, lastTimestamp')

\* C36: a call that arrives with timestamp <= lastTimestamp while clockSeq
\* is 0xFFF sets clockSeq to 0, advances lastTimestamp by 1 and encodes the
\* advanced timestamp in the UUID; lastTimestamp never decreases over any
\* sequence of calls.
C36_OverflowAdvances == [][OverflowAdvances /\ NeverDecreases]_vars

\* ---- the heartbeat and the startup check ----

\* once the heartbeat has uploaded a time, the node registerOrRecover reads
\* holds it
HeartbeatReachesNode ==
    hbeat.sent =>
        /\ zkNodes[RegisterKey].exists
        /\ zkNodes[RegisterKey].LastTime = hbeat.time

\* a start that found the node compared the clock with the time of the
\* last heartbeat, if there had been one
StartupComparesHeartbeat ==
    (boot.kind \in {"recovered", "err_rollback"} /\ boot.beat.sent) =>
        boot.against = boot.beat.time

\* C37: the heartbeat (scheduledUploadTime) updates the Zookeeper node that
\* registerOrRecover created and reads at startup, so that the clock check
\* of a restart compares the current time with the time of the most recent
\* heartbeat, not with the time of the registration.
C37_HeartbeatFeedsStartupCheck ==
    HeartbeatReachesNode /\ StartupComparesHeartbeat

\* ---- ids and the reservation ----

\* NextID returns an id on buffer b in this step
Returns(b) == Len(log'[b]) = Len(log[b]) + 1

\* the id returned in this step
ReturnedId(b) == log'[b][Len(log'[b])].id

\* C38: at the moment NextID returns an id for a tag, the id is no greater
\* than the max_id persisted for the tag in the store.
C38_WithinReservation ==
    [][\A b \in Bufs :
          Returns(b) => ReturnedId(b) <= Persisted(bizTag[b])']_vars

\* ---- the registry holds initialised buffers only ----

\* the buffer goroutine c constructs is in nobody else's hands: it is not in
\* the map and no other goroutine inside GetID works on it
HiddenWhileBuilt ==
    \A c \in Callers :
        gpc[c] \in {"init", "in_init", "insert"} =>
            /\ \A t \in RegTags : buffers[t] # bufOf[c]
            /\ \A d \in Callers :
                   (d # c /\ gpc[d] \notin {"idle", "rlock", "lookup", "lock",
                                             "recheck"})
                       => bufOf[d] # bufOf[c]

\* the buffer a GetID call hands to NextID is the map's buffer for the tag
\* and has its current segment
HandedOverInitialised ==
    \A c \in Callers :
        gpc[c] \in {"nextid", "nextid_locked"} =>
            /\ buffers[gtag[c]] = bufOf[c]
            /\ current[bufOf[c]] # 0

\* the branch of NextID that answers "segment not initialized" cannot be
\* taken by a GetID call
NilBranchDead ==
    \A c \in Callers :
        /\ ~ENABLED ViaGetID(c, NextIDNil(c))
        /\ res[c] # "err_not_init"

\* C39: every buffer in the registry map has its current segment set, a
\* buffer under construction is in no other goroutine's hands until Init has
\* succeeded and it was inserted, and no GetID call returns the error
\* "segment not initialized".
C39_InitialisedBeforeVisible ==
    /\ NeverPoisoned
    /\ HiddenWhileBuilt
    /\ HandedOverInitialised
    /\ NilBranchDead

\* one goroutine created the buffer of a tag, another found it in the map
\* under the read lock; both calls returned an id of that buffer
C39_Witness ==
    \E c, d \in Callers :
        /\ c # d
        /\ gets[c] = 1 /\ gets[d] = 1
        /\ gtag[c] = gtag[d]
        /\ gpc[c] = "idle" /\ gpc[d] = "idle"
        /\ res[c] = "id" /\ res[d] = "id"
        /\ failed = <<>>
        /\ buffers[gtag[c]] = bufOf[c]
        /\ bufOf[d] = bufOf[c]
        /\ Len(log[bufOf[c]]) = 2
        /\ Len(segs) = 1

\* ---- tags are independent ----

\* the buffers that belong to tag u: the one in the map and the one a GetID
\* call for u constructs or hands to NextID
Owned(u) ==
    {b \in Bufs : buffers[u] = b}
        \cup {bufOf[c] : c \in {d \in Callers :
                               /\ gtag[d] = u
                               /\ gpc[d] \in {"init", "in_init", "insert",
                                               "nextid", "nextid_locked"}}}

\* the segments fetched for tag u, in the order of their commits
SegsOf(u) == SelectSeq(segs, LAMBDA s : bizTag[s.owner] = u)

\* goroutine p takes the step
Steps(p) ==
    \/ pc'[p] # pc[p]
    \/ loc'[p] # loc[p]
    \/ p \in Callers /\ (gpc'[p] # gpc[p] \/ res'[p] # res[p])

\* the tag goroutine p works for: the argument of its GetID call, or the tag
\* of the buffer whose prefetch it is (of the buffer that starts it, in the
\* step of go func())
TagOfStep(p) ==
    IF p \in Callers THEN gtag'[p]
    ELSE IF pc[p] = "idle" THEN bizTag[bufOf'[p]] ELSE bizTag[bufOf[p]]

\* a goroutine inside FetchNextSegment names the tag of its own buffer, which
\* is the tag its GetID call was made for, and holds no other row
FetchesOwnTag ==
    \A p \in Procs :
        pc[p] \in {"tx_update", "tx_select", "tx_commit"} =>
            /\ FetchTag(p) = bizTag[bufOf[p]]
            /\ p \in Callers => FetchTag(p) = gtag[p]
            /\ bufOf[p] \in Owned(FetchTag(p))
            /\ \A u \in RegTags : rowLock[u] = p => u = FetchTag(p)

\* nothing that belongs to tag u changes in the step
Untouched(u) ==
    /\ dbMaxId'[u] = dbMaxId[u]
    /\ dbStep'[u] = dbStep[u]
    /\ rowLock'[u] = rowLock[u]
    /\ buffers'[u] = buffers[u]
    /\ SegsOf(u)' = SegsOf(u)
    /\ \A b \in Owned(u) :
           /\ bizTag'[b] = bizTag[b]
           /\ current'[b] = current[b]
           /\ next'[b] = next[b]
           /\ nextReady'[b] = nextReady[b]
           /\ isLoading'[b] = isLoading[b]
           /\ mu'[b] = mu[b]
           /\ log'[b] = log[b]

\* a step made for one tag leaves every other tag untouched
OtherTagsUntouched ==
    \A p \in Procs :
        Steps(p) => \A u \in RegTags \ {TagOfStep(p)} : Untouched(u)

\* the k-th segment fetched for a tag is the k-th range of its own row,
\* whatever was fetched for the other tags, and every id a buffer returned
\* was taken from a segment of its own
OwnRanges ==
    /\ \A u \in RegTags : \A k \in 1..Len(SegsOf(u)) :
           /\ SegsOf(u)[k].Base = InitMaxId + (k - 1) * dbStep[u]
           /\ SegsOf(u)[k].Max = InitMaxId + k * dbStep[u]
    /\ \A b \in Bufs : \A i \in 1..Len(log[b]) :
           segs[log[b][i].seg].owner = b

\* C40: a buffer fetches segments with its own tag only; a step of GetID,
\* NextID or the prefetch made for one tag changes neither the row, nor the
\* map entry, nor the segments and cursors, nor any buffer field of another
\* tag; the ranges a tag is given depend on its own row alone.
C40_TagIndependence ==
    [][/\ FetchesOwnTag
       /\ OtherTagsUntouched
       /\ OwnRanges']_vars

\* both tags are in use: each has its buffer in the map and has returned an
\* id out of its own first segment, and both rows have moved
C40_Witness ==
    /\ \A u \in RegTags :
           /\ buffers[u] # 0
           /\ Len(log[buffers[u]]) >= 1
           /\ dbMaxId[u] = InitMaxId + dbStep[u]
    /\ buffers["order-service"] # buffers["user-service"]
    /\ \E c, d \in Callers :
           /\ c # d
           /\ gtag[c] # gtag[d]
           /\ gpc[c] \in {"nextid", "nextid_locked"}
           /\ pc[c] # "idle"
           /\ gets[d] = 2

====
